---------------------------- MODULE Spec2Model ----------------------------
(***************************************************************************)
(* Gameplay simulation of "Sky Over Kharkiv" (src/main.c): equation        *)
(* generation, drone waves, the drone / projectile / turret state          *)
(* machines, hit resolution, scoring and the per-frame match loop.         *)
(*                                                                         *)
(* Floats are modelled in fixed point: a position is an integer number of  *)
(* 1/FP pixels and a time an integer number of 1/TPS seconds; a product    *)
(* speed * deltaTime of the source is rounded down to a position unit.     *)
(***************************************************************************)
EXTENDS Integers, Sequences, FiniteSets, TLC

\* ---------------------------------------------------------------- bounds
\* Size of the drone pool explored (the source's pool has 15 slots).
MAX_DRONES == 3
\* Size of the projectile pool explored (the source's pool has 10 slots).
MAX_PROJECTILES == 4
\* rand() % n is explored for RandSamples evenly spaced residues in the main
\* loop and for GenSamples residues where GenerateNewEquation is run alone.
RandSamples == 2
GenSamples == 4
\* Frame times, in time units: while a projectile flies / while none does.
ShortFrame == 50
LongFrame == 5000
\* From the start of the program the player clicks at most BootShots times and
\* at most BootWaves waves are spawned; from a match in progress, MidShots and
\* MidWaves.
BootShots == 1
BootWaves == 2
MidShots == 1
MidWaves == 2
StallShots == 2
StallWaves == 1
FallShots == 1
\* The turret is aimed alone for mouse positions up to MouseMargin pixels
\* outside the field, the mouse moving up to MouseJump pixels between two calls.
RunLength == 4
VolleyShots == 1
RapidShots == 3
MouseMargin == 150
MouseJump == 2
OverShots == 2
OverWaves == 2
FallWaves == 1
\* The main loop is explored for the levels 1..MaxLevel.
MaxLevel == 1
\* KEY_THREE: level = 3, the highest level there is; GenerateNewEquation is run
\* alone for every level.
MaxGenLevel == 3
\* Spawn heights are explored for the residues of rand() up to MaxSpawnY.
MaxSpawnY == 0

\* ---------------------------------------------------------- fixed point
FP == 2 * 2            \* position units per pixel
TPS == 10 * 100        \* time units per second (a time unit is 1 ms)

\* ------------------------------------------------------------ constants
INITIAL_AMMO == 10
SHOT_COST == 2
HIT_REWARD == 3
SCORE_CORRECT_HIT == 10
SCORE_WRONG_HIT == -5
MAX_AMMO == 20
DRONE_SPEED == 70
PROJECTILE_SPEED == 3000
DRONE_FALL_SPEED == 150
DRONE_SCALE == 2
GEPARD_SCALE == 2
GEPARD_TEXTURE_SIZE == 150
DRONE_TEXTURE_SIZE == 100
SCREEN_WIDTH == 1107
SCREEN_HEIGHT == 694
GROUND_LEVEL == 394
GROUND_EXPLOSION_OFFSET == 200
NEAR_GROUND_LEVEL == 494
DRONE_SPAWN_X == 1200
DRONE_SPAWN_SPACING == 150
DRONE_SPAWN_Y_MIN == 80
DRONE_SPAWN_Y_RANGE == 250
DRONE_MIN_COUNT == 2
DRONE_MAX_COUNT == 2
DRONE_TARGET_OFFSET == 10
OFF_SCREEN_LEFT == -150
OFF_SCREEN_RIGHT == 1200
OFF_SCREEN_TOP == -10
OFF_SCREEN_BOTTOM == 750
DRONE_LEFT_BOUNDARY == 100
\* float constants of the source, in time units
EXPLOSION_DURATION == (3 * TPS) \div 10          \* 0.3f s
FIRE_FRAME_DURATION == (5 * TPS) \div 100        \* 0.05f s
RESPAWN_DELAY == 1 * TPS                         \* 1.0f s
PROJECTILE_MAX_LIFETIME == 2 * TPS               \* 2.0f s

\* enum DroneState
DRONE_FLYING == 0
DRONE_EXPLODING == 1
DRONE_FALLING == 2
DRONE_DEAD == 3

DroneIdx == 0 .. (MAX_DRONES - 1)
ProjIdx == 0 .. (MAX_PROJECTILES - 1)

VARIABLES
    drones,               \* Drone drones[MAX_DRONES]
    projectiles,          \* Projectile projectiles[MAX_PROJECTILES]
    gepard,               \* GepardTank gepard
    currentEquation,      \* MathEquation currentEquation
    ammo, score, level,
    shahedActive,         \* the spec's waveActive
    spawnTimer,
    activeDroneCount,
    levelSelected, gameStarted, paused, showOptionsMenu,
    allowNegativeResults,
    frame,                \* what the last frame did (observation only)
    window,               \* GetScreenWidth(), GetScreenHeight(): the size of the window
    shots, waves,         \* clicks / waves still explored from here (bounded;
                          \* a negative number of waves: no bound)
    gen,                  \* a call of GenerateNewEquation, or a wrong-answer
                          \* loop of SpawnDrones, run pass by pass
    samples,              \* how many residues of rand() % n are explored
    lastFire,             \* what the last frame that fired observed
    schedule              \* the values GetFrameTime() returns next, when fixed

vars == << drones, projectiles, gepard, currentEquation, ammo, score, level,
           shahedActive, spawnTimer, activeDroneCount, levelSelected,
           gameStarted, paused, showOptionsMenu, allowNegativeResults,
           frame, shots, waves, gen, samples, lastFire, schedule, window >>

\* --------------------------------------------------------------- helpers
Min(a, b) == IF a < b THEN a ELSE b
Max(a, b) == IF a > b THEN a ELSE b

\* Drone d = {0}
ZeroDrone == [x |-> 0, y |-> 0, answer |-> 0, isShahed |-> FALSE,
              state |-> DRONE_FLYING, animTimer |-> 0, active |-> FALSE]

\* Projectile p = {0}. stale is not a field of the source: it records that,
\* since the projectile was fired, a pass of UpdateProjectiles found no live
\* drone (an inactive or a DRONE_DEAD one) in the slot the projectile refers to.
ZeroProjectile == [x |-> 0, y |-> 0, vx |-> 0, vy |-> 0, active |-> FALSE,
                   lifetime |-> 0, targetDroneIndex |-> 0, stale |-> FALSE]

ZeroEquation == [num1 |-> 0, num2 |-> 0, operation |-> "", correctAnswer |-> 0]

\* speed (pixels per second) * deltaTime, in position units
Travel(speed, dt) == (speed * FP * dt) \div TPS

\* an update that makes every Flying drone fall at the left boundary
UpdateDroneAllFall(d, dt) ==
    IF ~d.active THEN d
    ELSE IF d.state = DRONE_FLYING THEN
        LET nx == d.x - Travel(DRONE_SPEED, dt) IN
        IF nx < DRONE_LEFT_BOUNDARY * FP
            THEN [d EXCEPT !.x = nx, !.state = DRONE_FALLING, !.animTimer = 0]
        ELSE IF nx < OFF_SCREEN_LEFT * FP
            THEN [d EXCEPT !.x = nx, !.active = FALSE]
        ELSE [d EXCEPT !.x = nx]
    ELSE IF d.state = DRONE_EXPLODING THEN
        LET t == d.animTimer + dt IN
        IF t > EXPLOSION_DURATION
            THEN [d EXCEPT !.animTimer = t, !.state = DRONE_DEAD]
            ELSE [d EXCEPT !.animTimer = t]
    ELSE IF d.state = DRONE_FALLING THEN
        LET t  == d.animTimer + dt
            nx == d.x - (Travel(DRONE_SPEED, dt) \div 2)
            ny == d.y + Travel(DRONE_FALL_SPEED, dt)
        IN
        IF d.isShahed /\ ny >= GROUND_LEVEL * FP
            THEN [d EXCEPT !.animTimer = 0, !.x = nx,
                           !.y = ny + GROUND_EXPLOSION_OFFSET * FP,
                           !.state = DRONE_EXPLODING]
        ELSE IF ny >= NEAR_GROUND_LEVEL * FP \/ nx < OFF_SCREEN_LEFT * FP
            THEN [d EXCEPT !.animTimer = t, !.x = nx, !.y = ny, !.state = DRONE_DEAD]
        ELSE [d EXCEPT !.animTimer = t, !.x = nx, !.y = ny]
    ELSE [d EXCEPT !.active = FALSE]

\* an update that leaves a Dead drone in its slot
UpdateDroneKeepsDead(d, dt) ==
    IF ~d.active THEN d
    ELSE IF d.state = DRONE_FLYING THEN
        LET nx == d.x - Travel(DRONE_SPEED, dt) IN
        IF d.isShahed /\ nx < DRONE_LEFT_BOUNDARY * FP
            THEN [d EXCEPT !.x = nx, !.state = DRONE_FALLING, !.animTimer = 0]
        ELSE IF nx < OFF_SCREEN_LEFT * FP
            THEN [d EXCEPT !.x = nx, !.active = FALSE]
        ELSE [d EXCEPT !.x = nx]
    ELSE IF d.state = DRONE_EXPLODING THEN
        LET t == d.animTimer + dt IN
        IF t > EXPLOSION_DURATION
            THEN [d EXCEPT !.animTimer = t, !.state = DRONE_DEAD]
            ELSE [d EXCEPT !.animTimer = t]
    ELSE IF d.state = DRONE_FALLING THEN
        LET t  == d.animTimer + dt
            nx == d.x - (Travel(DRONE_SPEED, dt) \div 2)
            ny == d.y + Travel(DRONE_FALL_SPEED, dt)
        IN
        IF d.isShahed /\ ny >= GROUND_LEVEL * FP
            THEN [d EXCEPT !.animTimer = 0, !.x = nx,
                           !.y = ny + GROUND_EXPLOSION_OFFSET * FP,
                           !.state = DRONE_EXPLODING]
        ELSE IF ny >= NEAR_GROUND_LEVEL * FP \/ nx < OFF_SCREEN_LEFT * FP
            THEN [d EXCEPT !.animTimer = t, !.x = nx, !.y = ny, !.state = DRONE_DEAD]
        ELSE [d EXCEPT !.animTimer = t, !.x = nx, !.y = ny]
    ELSE d

\* UpdateDrones: the switch on drones[i].state for one active drone
UpdateDrone(d, dt) ==
    IF ~d.active THEN d
    ELSE IF d.state = DRONE_FLYING THEN
        LET nx == d.x - Travel(DRONE_SPEED, dt) IN
        IF d.isShahed /\ nx < DRONE_LEFT_BOUNDARY * FP
            THEN [d EXCEPT !.x = nx, !.state = DRONE_FALLING, !.animTimer = 0]
        ELSE IF nx < OFF_SCREEN_LEFT * FP
            THEN [d EXCEPT !.x = nx, !.active = FALSE]
        ELSE [d EXCEPT !.x = nx]
    ELSE IF d.state = DRONE_EXPLODING THEN
        LET t == d.animTimer + dt IN
        IF t > EXPLOSION_DURATION
            THEN [d EXCEPT !.animTimer = t, !.state = DRONE_DEAD]
            ELSE [d EXCEPT !.animTimer = t]
    ELSE IF d.state = DRONE_FALLING THEN
        LET t  == d.animTimer + dt
            nx == d.x - (Travel(DRONE_SPEED, dt) \div 2)
            ny == d.y + Travel(DRONE_FALL_SPEED, dt)
        IN
        IF d.isShahed /\ ny >= GROUND_LEVEL * FP
            THEN [d EXCEPT !.animTimer = 0, !.x = nx,
                           !.y = ny + GROUND_EXPLOSION_OFFSET * FP,
                           !.state = DRONE_EXPLODING]
        ELSE IF ny >= NEAR_GROUND_LEVEL * FP \/ nx < OFF_SCREEN_LEFT * FP
            THEN [d EXCEPT !.animTimer = t, !.x = nx, !.y = ny, !.state = DRONE_DEAD]
        ELSE [d EXCEPT !.animTimer = t, !.x = nx, !.y = ny]
    ELSE [d EXCEPT !.active = FALSE]

UpdateDrones(ds, dt) == [i \in DroneIdx |-> UpdateDrone(ds[i], dt)]

\* an animation that stays on its top frame
UpdateGepardHoldsTop(g, dt) ==
    IF ~g.isFiring THEN g
    ELSE LET t == g.fireTimer + dt IN
         IF t > FIRE_FRAME_DURATION
             THEN IF g.fireFrame + 1 > 2
                     THEN [g EXCEPT !.fireTimer = 0]
                     ELSE [g EXCEPT !.fireFrame = g.fireFrame + 1, !.fireTimer = 0]
             ELSE [g EXCEPT !.fireTimer = t]

\* UpdateGepard(&gepard, deltaTime)
UpdateGepard(g, dt) ==
    IF ~g.isFiring THEN g
    ELSE LET t == g.fireTimer + dt IN
         IF t > FIRE_FRAME_DURATION
             THEN IF g.fireFrame + 1 > 2
                     THEN [g EXCEPT !.fireFrame = 0, !.fireTimer = 0, !.isFiring = FALSE]
                     ELSE [g EXCEPT !.fireFrame = g.fireFrame + 1, !.fireTimer = 0]
             ELSE [g EXCEPT !.fireTimer = t]

\* ------------------------------------------------------------- randomness
\* rand() % n: any residue in 0 .. n-1, explored on evenly spaced samples and,
\* where more than two samples are taken, on the largest residue n - 1 as well
Rand(n) ==
    {(k * n) \div samples : k \in 0 .. (samples - 1)}
        \cup (IF samples > 2 THEN {n - 1} ELSE {})

\* ---------------------------------------------------- GenerateNewEquation
Equation(a, op, b, ans) ==
    [num1 |-> a, num2 |-> b, operation |-> op, correctAnswer |-> ans]

\* opType drawn from all four operations at every level
OpTypesAnyLevel(lvl) == Rand(4)

\* opType = rand() % 2, % 3 or % 4, by level
OpTypes(lvl) == IF lvl = 1 THEN Rand(2) ELSE IF lvl = 2 THEN Rand(3) ELSE Rand(4)

\* case 0
Additions(lvl) ==
    IF lvl = 1
        THEN {Equation(1 + r1, "+", 1 + r2, (1 + r1) + (1 + r2)) :
                  r1 \in Rand(20), r2 \in Rand(20)}
        ELSE {Equation(5 + r1, "+", 5 + r2, (5 + r1) + (5 + r2)) :
                  r1 \in Rand(45), r2 \in Rand(45)}

\* case 1 with num2 drawn like num1, whatever allowNegative says
SubtractionsUnconstrained(lvl, allowNegative) ==
    IF lvl = 1
        THEN {Equation(r1, "-", r2, r1 - r2) : r1 \in Rand(21), r2 \in Rand(21)}
        ELSE {Equation(r1, "-", r2, r1 - r2) : r1 \in Rand(80), r2 \in Rand(80)}

\* case 1
Subtractions(lvl, allowNegative) ==
    IF allowNegative
        THEN IF lvl = 1
                 THEN {Equation(r1, "-", r2, r1 - r2) : r1 \in Rand(21), r2 \in Rand(21)}
                 ELSE {Equation(r1, "-", r2, r1 - r2) : r1 \in Rand(80), r2 \in Rand(80)}
        ELSE IF lvl = 1
                 THEN UNION {{Equation(r1, "-", r2, r1 - r2) : r2 \in Rand(r1 + 1)} :
                                r1 \in Rand(21)}
                 ELSE UNION {{Equation(20 + r1, "-", 5 + r2, (20 + r1) - (5 + r2)) :
                                  r2 \in Rand((20 + r1) - 4)} : r1 \in Rand(60)}

\* case 2
Multiplications ==
    {Equation(2 + r1, "*", 2 + r2, (2 + r1) * (2 + r2)) : r1 \in Rand(12), r2 \in Rand(12)}

\* case 3 with dividend and divisor drawn, the answer their integer quotient
DivisionsOfDrawnOperands ==
    {Equation(2 + ra, "/", 2 + rd, (2 + ra) \div (2 + rd)) :
         ra \in Rand(10), rd \in Rand(9)}

\* case 3: the answer and the divisor are drawn, the dividend is their product
Divisions ==
    {Equation((2 + ra) * (2 + rd), "/", 2 + rd, 2 + ra) : ra \in Rand(10), rd \in Rand(9)}

\* one pass of the do-while body up to the duplicate scan: the candidates
EquationCandidates(lvl, allowNegative) ==
    UNION {IF op = 0 THEN Additions(lvl)
           ELSE IF op = 1 THEN Subtractions(lvl, allowNegative)
           ELSE IF op = 2 THEN Multiplications
           ELSE Divisions : op \in OpTypes(lvl)}

IsTrivial(eq) ==
    \/ eq.operation = "+" /\ (eq.num1 = 0 \/ eq.num2 = 0)
    \/ eq.operation = "-" /\ eq.num2 = 0

IsFlying(d) == d.active /\ d.state = DRONE_FLYING

\* the scan of the pool for a Flying drone that displays the answer
DuplicateAnswer(ans, ds) == \E i \in DroneIdx : IsFlying(ds[i]) /\ ds[i].answer = ans

GenAttemptLimit == 20

\* the do-while condition without duplicateAnswer
RejectedIfTrivial(eq, ds) == IsTrivial(eq)

\* the do-while condition without isTrivial
RejectedIfDuplicate(eq, ds) == DuplicateAnswer(eq.correctAnswer, ds)

\* a candidate the do-while condition sends back for another pass
Rejected(eq, ds) == IsTrivial(eq) \/ DuplicateAnswer(eq.correctAnswer, ds)

\* GenerateNewEquation(&eq, level, drones, allowNegative): its possible outcomes.
\* The loop returns the first candidate that is not rejected, or, when
\* GenAttemptLimit candidates in a row were rejected, the next candidate
\* whatever it is (exhausted: the break after attempts > 20 was taken).
GenerateNewEquation(lvl, ds, allowNegative) ==
    LET cands == EquationCandidates(lvl, allowNegative) IN
    {[eq |-> c, exhausted |-> FALSE] : c \in {e \in cands : ~Rejected(e, ds)}}
    \cup (IF \E e \in cands : Rejected(e, ds)
             THEN {[eq |-> c, exhausted |-> TRUE] : c \in cands}
             ELSE {})

\* one pass of the loop without the break on attempts: the loop is left only
\* by a candidate that is not rejected
GenerateStepUnbounded(g, c, ds) ==
    [called |-> TRUE, eq |-> c, attempts |-> g.attempts + 1,
     returned |-> ~Rejected(c, ds),
     allCollided |-> g.allCollided /\ DuplicateAnswer(c.correctAnswer, ds)]

\* One pass of the do-while loop over the state g of a call: a candidate c is
\* drawn, attempts is incremented, and the loop is left when attempts exceeds
\* GenAttemptLimit or the candidate is not rejected. allCollided is not a
\* variable of the source: every candidate drawn so far displayed the answer
\* of a Flying drone.
GenerateStep(g, c, ds) ==
    LET n == g.attempts + 1 IN
    [called |-> TRUE, eq |-> c, attempts |-> n,
     returned |-> n > GenAttemptLimit \/ ~Rejected(c, ds),
     allCollided |-> g.allCollided /\ DuplicateAnswer(c.correctAnswer, ds)]

\* ------------------------------------------------------------ SpawnDrones
DecoyAttemptLimit == 50
DecoyOffsetSpan == 20
DecoyOffsetShift == 10
DecoyZeroOffset == 5

\* offset = (rand() % 20) - 10; if (offset == 0) offset = 5;
DecoyOffsets ==
    {IF r - DecoyOffsetShift = 0 THEN DecoyZeroOffset ELSE r - DecoyOffsetShift :
         r \in Rand(DecoyOffsetSpan)}

\* the loop of one wrong answer left after its first candidate, duplicate or not
DecoyFirstCandidate(correct, taken) ==
    {[answer |-> correct + o, duplicate |-> FALSE] : o \in DecoyOffsets}

\* The retry loop of one wrong answer: every value it can leave in answers[i].
\* taken: the answers on screen and the answers already chosen in this wave.
\* The loop stops at the first candidate that is not taken, or after
\* DecoyAttemptLimit candidates that all were, keeping the last one (duplicate).
DecoyLoop(correct, taken) ==
    LET cands == {correct + o : o \in DecoyOffsets} IN
    {[answer |-> c, duplicate |-> c \in taken] : c \in cands}

SeqToSet(sq) == {sq[k] : k \in 1 .. Len(sq)}

\* The loop that fills answers[0 .. numDrones-1], from index i on. A wave is
\* [answers, exhausted]: exhausted when some wrong answer was left duplicate.
RECURSIVE WaveAnswers(_, _, _, _, _, _)
WaveAnswers(correct, existing, correctIndex, numDrones, i, wave) ==
    IF i >= numDrones THEN {wave}
    ELSE IF i = correctIndex
        THEN WaveAnswers(correct, existing, correctIndex, numDrones, i + 1,
                         [wave EXCEPT !.answers = Append(@, correct)])
    ELSE UNION {WaveAnswers(correct, existing, correctIndex, numDrones, i + 1,
                            [answers |-> Append(wave.answers, r.answer),
                             exhausted |-> wave.exhausted \/ r.duplicate]) :
                   r \in DecoyLoop(correct, existing \cup SeqToSet(wave.answers))}

\* rand() % (int)DRONE_SPAWN_Y_RANGE
SpawnHeights == {r \in Rand(DRONE_SPAWN_Y_RANGE) : r <= MaxSpawnY}

\* a scan for free slots that passes over Dead drones
IsFreeInactiveOnly(d) == ~d.active

\* if (!drones[i].active || drones[i].state == DRONE_DEAD)
IsFree(d) == ~d.active \/ d.state = DRONE_DEAD

\* number of free slots below slot i: the value of `spawned` when the scan is at i
FreeBelow(ds, i) == Cardinality({j \in DroneIdx : j < i /\ IsFree(ds[j])})

\* a first scan that clears the marks of the Flying drones and sets none
MarkExistingClearsOnly(ds, correct) ==
    [i \in DroneIdx |->
        IF IsFlying(ds[i]) THEN [ds[i] EXCEPT !.isShahed = FALSE]
        ELSE ds[i]]

\* the first scan: re-mark the Flying drones against the new equation
MarkExisting(ds, correct) ==
    [i \in DroneIdx |->
        IF IsFlying(ds[i]) THEN [ds[i] EXCEPT !.isShahed = (ds[i].answer = correct)]
        ELSE ds[i]]

\* the last scan: place answers[0 .. ] into the free slots, lowest slot first
PlaceDrones(ds, answers, ys, correctIndex, numDrones) ==
    [i \in DroneIdx |->
        LET k == FreeBelow(ds, i) IN
        IF IsFree(ds[i]) /\ k < numDrones
            THEN [x |-> (DRONE_SPAWN_X + k * DRONE_SPAWN_SPACING) * FP,
                  y |-> (DRONE_SPAWN_Y_MIN + ys[k + 1]) * FP,
                  answer |-> answers[k + 1],
                  isShahed |-> (k = correctIndex),
                  state |-> DRONE_FLYING,
                  animTimer |-> 0,
                  active |-> TRUE]
            ELSE ds[i]]

\* The random draws of one SpawnDrones call: numDrones, correctIndex, the
\* answers array (with exhausted: some wrong answer was left duplicate) and the
\* spawn heights ys.
SpawnRolls(ds, eq) ==
    LET correct  == eq.correctAnswer
        existing == {ds[i].answer : i \in {j \in DroneIdx : IsFlying(ds[j])}}
        found    == \E i \in DroneIdx : IsFlying(ds[i]) /\ ds[i].answer = correct
    IN  UNION {UNION {UNION {
            {[numDrones |-> n, correctIndex |-> ci, answers |-> w.answers,
              exhausted |-> w.exhausted, ys |-> ys] :
                  ys \in [1 .. n -> SpawnHeights]} :
              w \in WaveAnswers(correct, existing, ci, n, 0,
                                [answers |-> << >>, exhausted |-> FALSE])} :
              ci \in (IF found THEN {-1} ELSE Rand(n))} :
              n \in {Min(DRONE_MIN_COUNT + r, MAX_DRONES) :
                         r \in Rand(DRONE_MAX_COUNT - DRONE_MIN_COUNT + 1)}}

\* SpawnDrones(drones, &eq, &activeDroneCount) with the draws `roll`
SpawnDrones(ds, eq, roll) ==
    [drones |-> PlaceDrones(MarkExisting(ds, eq.correctAnswer), roll.answers, roll.ys,
                            roll.correctIndex, roll.numDrones),
     activeDroneCount |->
         Min(roll.numDrones, Cardinality({i \in DroneIdx : IsFree(ds[i])})),
     existingAnswers |-> {ds[i].answer : i \in {j \in DroneIdx : IsFlying(ds[j])}},
     foundExistingShahed |->
         \E i \in DroneIdx : IsFlying(ds[i]) /\ ds[i].answer = eq.correctAnswer]

\* ------------------------------------------------------------ projectiles
\* largest r in lo..hi with r*r <= n (sqrtf, rounded down to a position unit)
RECURSIVE SqrtIn(_, _, _)
SqrtIn(n, lo, hi) ==
    IF lo >= hi THEN lo
    ELSE LET mid == (lo + hi + 1) \div 2 IN
         IF mid * mid <= n THEN SqrtIn(n, mid, hi) ELSE SqrtIn(n, lo, mid - 1)

Sqrt(n) == SqrtIn(n, 0, 2 * OFF_SCREEN_RIGHT * FP)

\* GetDroneBounds: bounds.width, bounds.height and bounds.center
DroneWidth == DRONE_TEXTURE_SIZE * DRONE_SCALE * FP
DroneCenter(d) == [x |-> d.x + DroneWidth \div 2, y |-> d.y + DroneWidth \div 2]

\* bounds.width * PROJECTILE_HIT_RADIUS (0.3f)
HitRadius == (DroneWidth * 3) \div 10

\* CheckCollisionPointRec(point, GetDroneBounds(d).bounds)
PointInDrone(pt, d) ==
    /\ pt.x >= d.x /\ pt.x < d.x + DroneWidth
    /\ pt.y >= d.y /\ pt.y < d.y + DroneWidth

\* gepardPosition = { 120.0f, screenHeight - 40.0f - GEPARD_TEXTURE_SIZE * GEPARD_SCALE }
GepardPosition ==
    [x |-> 120 * FP, y |-> (SCREEN_HEIGHT - 40 - GEPARD_TEXTURE_SIZE * GEPARD_SCALE) * FP]

\* GetBarrelPosition with GEPARD_BARREL_LEFT_X 0.67f, _RIGHT_X 0.83f, _Y 0.63f
GetBarrelPosition(isLeftBarrel) ==
    [x |-> GepardPosition.x + (GEPARD_TEXTURE_SIZE * GEPARD_SCALE * FP
                               * (IF isLeftBarrel THEN 67 ELSE 83)) \div 100,
     y |-> GepardPosition.y + (GEPARD_TEXTURE_SIZE * GEPARD_SCALE * FP * 63) \div 100]

HasFreeProjectile(ps) == \E i \in ProjIdx : ~ps[i].active

FirstFreeProjectile(ps) ==
    CHOOSE i \in ProjIdx : ~ps[i].active /\ \A j \in ProjIdx : j < i => ps[j].active

\* SpawnProjectile taking the first slot over when no slot is free
SpawnProjectileRecycles(ps, start, target, droneIndex) ==
    LET i   == IF HasFreeProjectile(ps) THEN FirstFreeProjectile(ps) ELSE 0
        dx  == target.x - start.x
        dy  == target.y - start.y
        len == Sqrt(dx * dx + dy * dy)
        v   == PROJECTILE_SPEED * FP
    IN  [ps EXCEPT ![i] =
            [x |-> start.x, y |-> start.y,
             vx |-> IF len > 0 THEN (dx * v) \div len ELSE ps[i].vx,
             vy |-> IF len > 0 THEN (dy * v) \div len ELSE ps[i].vy,
             active |-> TRUE, lifetime |-> 0, targetDroneIndex |-> droneIndex,
             stale |-> FALSE]]

\* SpawnProjectile(projectiles, start, target, droneIndex)
SpawnProjectile(ps, start, target, droneIndex) ==
    IF ~HasFreeProjectile(ps) THEN ps
    ELSE LET i   == FirstFreeProjectile(ps)
             dx  == target.x - start.x
             dy  == target.y - start.y
             len == Sqrt(dx * dx + dy * dy)
             v   == PROJECTILE_SPEED * FP
         IN  [ps EXCEPT ![i] =
                 [x |-> start.x, y |-> start.y,
                  vx |-> IF len > 0 THEN (dx * v) \div len ELSE ps[i].vx,
                  vy |-> IF len > 0 THEN (dy * v) \div len ELSE ps[i].vy,
                  active |-> TRUE, lifetime |-> 0, targetDroneIndex |-> droneIndex,
                  stale |-> FALSE]]

\* distance < bounds.width * PROJECTILE_HIT_RADIUS, for a projectile at (px, py)
WithinHitRadius(px, py, d) ==
    LET c  == DroneCenter(d)
        dx == px - c.x
        dy == py - c.y
    IN  /\ dx < HitRadius /\ -dx < HitRadius
        /\ dy < HitRadius /\ -dy < HitRadius
        /\ dx * dx + dy * dy < HitRadius * HitRadius

\* a projectile that is never taken out of play for its position or its age
OutOfBoundsNever(px, py, lifetime) == FALSE

\* "Deactivate if off-screen or lived too long"
OutOfBounds(px, py, lifetime) ==
    \/ px < OFF_SCREEN_TOP * FP \/ px > OFF_SCREEN_RIGHT * FP
    \/ py < OFF_SCREEN_TOP * FP \/ py > OFF_SCREEN_BOTTOM * FP
    \/ lifetime > PROJECTILE_MAX_LIFETIME

\* the collision rule without its DRONE_EXPLODING alternative
CollidableFlyingOnly(d) == d.active /\ d.state = DRONE_FLYING

\* the collision rule: the drone in the projectile's slot can be hit
Collidable(d) == d.active /\ (d.state = DRONE_FLYING \/ d.state = DRONE_EXPLODING)

\* The body of the loop of UpdateProjectiles for projectile i. st carries the
\* pools, ammo, score and shahedActive through the loop; st.log records, per
\* active projectile and in processing order, what the pass did.
\* the drone of a wrong hit treated as the drone of a correct hit is
WrongHitDroneExplodes(d) == [d EXCEPT !.state = DRONE_EXPLODING, !.animTimer = 0]

\* "Wrong hit": state = DRONE_FALLING; animTimer = 0.0f;
WrongHitDrone(d) == [d EXCEPT !.state = DRONE_FALLING, !.animTimer = 0]

\* *ammo += HIT_REWARD; without the cap
RewardAmmoUncapped(am) == am + HIT_REWARD

\* *ammo += HIT_REWARD; if (*ammo > MAX_AMMO) *ammo = MAX_AMMO;
RewardAmmo(am) == Min(am + HIT_REWARD, MAX_AMMO)

UpdateProjectile(st, i, dt) ==
    LET p == st.projectiles[i] IN
    IF ~p.active THEN st
    ELSE
    LET px  == p.x + (p.vx * dt) \div TPS
        py  == p.y + (p.vy * dt) \div TPS
        lt  == p.lifetime + dt
        t   == p.targetDroneIndex
        d   == st.drones[t]
        near == WithinHitRadius(px, py, d)
        hit == t >= 0 /\ t < MAX_DRONES /\ Collidable(d) /\ near
        damage == hit /\ d.state = DRONE_FLYING
        correct == damage /\ d.isShahed
        wrong == damage /\ ~d.isShahed
        expired == OutOfBounds(px, py, lt)
        stillActive == ~hit /\ ~expired
        nd == IF correct THEN [d EXCEPT !.state = DRONE_EXPLODING, !.animTimer = 0]
              ELSE IF wrong THEN WrongHitDrone(d)
              ELSE d
        nammo == IF correct THEN RewardAmmo(st.ammo) ELSE st.ammo
        nscore == IF correct THEN st.score + SCORE_CORRECT_HIT
                  ELSE IF wrong THEN st.score + SCORE_WRONG_HIT
                  ELSE st.score
        nsa == IF correct THEN FALSE ELSE st.shahedActive
    IN  [projectiles |-> [st.projectiles EXCEPT
                             ![i] = [p EXCEPT !.x = px, !.y = py, !.lifetime = lt,
                                              !.active = stillActive,
                                              !.stale = @ \/ IsFree(d)]],
         drones |-> [st.drones EXCEPT ![t] = nd],
         ammo |-> nammo,
         score |-> nscore,
         shahedActive |-> nsa,
         log |-> Append(st.log,
                    [projectile |-> i, target |-> t, near |-> near, stale |-> p.stale,
                     effect |-> IF correct THEN "correct" ELSE IF wrong THEN "wrong"
                                ELSE IF hit THEN "absorbed" ELSE "none",
                     expired |-> expired, stillActive |-> stillActive,
                     droneBefore |-> d, droneAfter |-> nd,
                     ammoBefore |-> st.ammo, ammoAfter |-> nammo,
                     scoreBefore |-> st.score, scoreAfter |-> nscore,
                     shahedActiveBefore |-> st.shahedActive,
                     shahedActiveAfter |-> nsa])]

RECURSIVE ProjectileLoop(_, _, _)
ProjectileLoop(st, i, dt) ==
    IF i >= MAX_PROJECTILES THEN st
    ELSE CHOOSE r \in {ProjectileLoop(n, i + 1, dt) :
                          n \in {UpdateProjectile(st, i, dt)}} : TRUE

\* an UpdateProjectiles whose hits also bring down every drone still Flying
UpdateProjectilesSplash(ps, ds, am, sc, sa, dt) ==
    LET r == ProjectileLoop([projectiles |-> ps, drones |-> ds, ammo |-> am,
                             score |-> sc, shahedActive |-> sa, log |-> << >>], 0, dt)
    IN  IF r.drones = ds THEN r
        ELSE [r EXCEPT !.drones = [i \in DroneIdx |->
                                      IF IsFlying(r.drones[i])
                                          THEN WrongHitDrone(r.drones[i])
                                          ELSE r.drones[i]]]

\* UpdateProjectiles(projectiles, drones, &ammo, &score, &shahedActive, deltaTime, ..)
UpdateProjectiles(ps, ds, am, sc, sa, dt) ==
    ProjectileLoop([projectiles |-> ps, drones |-> ds, ammo |-> am, score |-> sc,
                    shahedActive |-> sa, log |-> << >>], 0, dt)

\* a status that counts every active drone as alive, Dead ones too
CheckDroneStatusCountsDead(ds) ==
    LET found == \E i \in DroneIdx : /\ ds[i].active /\ ds[i].isShahed
                                     /\ ds[i].state = DRONE_FLYING
    IN  [shahedFound |-> found, canWin |-> found,
         aliveCount |-> Cardinality({i \in DroneIdx : ds[i].active})]

\* CheckDroneStatus
CheckDroneStatus(ds) ==
    LET alive == {i \in DroneIdx : ds[i].active /\ ds[i].state # DRONE_DEAD}
        found == \E i \in alive : ds[i].isShahed /\ ds[i].state = DRONE_FLYING
    IN  [shahedFound |-> found, canWin |-> found, aliveCount |-> Cardinality(alive)]

\* the index without the two clamps
GetTurretIndexUnclamped(mouseX, screenWidth) ==
    LET num == (screenWidth - mouseX) * 5
    IN  IF num >= 0 THEN num \div screenWidth ELSE -((-num) \div screenWidth)

\* GetTurretIndexFromMouse(mouseX, screenWidth), mouseX in pixels:
\* (int)((1.0f - mouseX / screenWidth) * 5), the cast truncating toward zero
GetTurretIndexFromMouse(mouseX, screenWidth) ==
    LET num   == (screenWidth - mouseX) * 5
        index == IF num >= 0 THEN num \div screenWidth ELSE -((-num) \div screenWidth)
    IN  IF index < 0 THEN 0 ELSE IF index > 4 THEN 4 ELSE index

\* -------------------------------------------------------------- main loop
\* The locals of main() that the loop reads and writes, as one record.
Game ==
    [drones |-> drones, projectiles |-> projectiles, gepard |-> gepard,
     currentEquation |-> currentEquation, ammo |-> ammo, score |-> score,
     level |-> level, shahedActive |-> shahedActive, spawnTimer |-> spawnTimer,
     activeDroneCount |-> activeDroneCount, levelSelected |-> levelSelected,
     gameStarted |-> gameStarted, paused |-> paused,
     showOptionsMenu |-> showOptionsMenu,
     allowNegativeResults |-> allowNegativeResults]

NoSpawn == [called |-> FALSE]
NoFire == [fired |-> FALSE]
NoClick == [clicked |-> FALSE]
NoPool == [updated |-> FALSE]
NoStatus == [shahedFound |-> FALSE, canWin |-> FALSE, aliveCount |-> 0]

\* what a frame observed and did; rewritten by every frame
IdleFrame ==
    [ticked |-> FALSE, log |-> << >>, status |-> NoStatus,
     spawn |-> NoSpawn, fire |-> NoFire, click |-> NoClick, pool |-> NoPool,
     mouseX |-> 0,
     restarted |-> FALSE, restartAmmo |-> 0, selected |-> FALSE]

\* the random draws of GenerateNewEquation followed by SpawnDrones
WaveRolls(gm) ==
    UNION {{[eq |-> e, roll |-> o] : o \in SpawnRolls(gm.drones, e)} :
              e \in {r.eq : r \in GenerateNewEquation(gm.level, gm.drones,
                                                      gm.allowNegativeResults)}}

\* GenerateNewEquation(&currentEquation, ..); SpawnDrones(..); shahedActive = true;
\* g is [game, obs], wr the draws
NewWave(g, wr) ==
    LET o == SpawnDrones(g.game.drones, wr.eq, wr.roll) IN
    [game |-> [g.game EXCEPT !.currentEquation = wr.eq,
                             !.drones = o.drones,
                             !.activeDroneCount = o.activeDroneCount,
                             !.shahedActive = TRUE],
     obs  |-> [g.obs EXCEPT !.spawn =
                  [called |-> TRUE, before |-> g.game.drones, after |-> o.drones,
                   correctAnswer |-> wr.eq.correctAnswer,
                   numDrones |-> wr.roll.numDrones, answers |-> wr.roll.answers,
                   existingAnswers |-> o.existingAnswers,
                   foundExistingShahed |-> o.foundExistingShahed,
                   correctIndex |-> wr.roll.correctIndex,
                   exhausted |-> wr.roll.exhausted,
                   spawned |-> o.activeDroneCount]]]

\* if (IsKeyPressed(KEY_O)) ...
\* IsMouseButtonPressed(MOUSE_LEFT_BUTTON), IsKeyPressed(KEY_R): a frame can see
\* the button and the key pressed together
MouseLeft(ev) == ev \in {"click", "click+R"}
KeyR(ev) == ev \in {"R", "click+R"}

OptionsKey(g, ev) ==
    IF ev # "O" THEN g
    ELSE LET menu == ~g.game.showOptionsMenu IN
         [g EXCEPT !.game.showOptionsMenu = menu,
                   !.game.paused = IF menu /\ g.game.gameStarted THEN TRUE ELSE @]

LevelOfKey(ev) == IF ev = "1" THEN 1 ELSE IF ev = "2" THEN 2 ELSE 3

\* if (!levelSelected) { level keys }: a level key is taken
Selecting(g, ev) == ~g.game.levelSelected /\ ev \in {"1", "2", "3"}

\* level = ..; levelSelected = true; gameStarted = true;
SelectLevel(g, ev) ==
    [g EXCEPT !.game.level = LevelOfKey(ev),
              !.game.levelSelected = TRUE,
              !.game.gameStarted = TRUE,
              !.obs.selected = TRUE]

\* Rectangle negativeCheckbox = {screenWidth/2 + 180, screenHeight/2 - 30, 30, 30}
InNegativeCheckbox(pt) ==
    /\ pt.x >= (SCREEN_WIDTH \div 2 + 180) * FP
    /\ pt.x < (SCREEN_WIDTH \div 2 + 180 + 30) * FP
    /\ pt.y >= (SCREEN_HEIGHT \div 2 - 30) * FP
    /\ pt.y < (SCREEN_HEIGHT \div 2 - 30 + 30) * FP

\* if (showOptionsMenu) { ... checkbox clicks ... }
OptionsMenu(g, ev, pt) ==
    IF g.game.showOptionsMenu /\ MouseLeft(ev) /\ InNegativeCheckbox(pt)
        THEN [g EXCEPT !.game.allowNegativeResults = ~@]
        ELSE g

\* if (!showOptionsMenu && IsKeyPressed(KEY_SPACE)) paused = !paused;
PauseKey(g, ev) ==
    IF g.game.gameStarted /\ ~g.game.showOptionsMenu /\ ev = "space"
        THEN [g EXCEPT !.game.paused = ~@]
        ELSE g

\* if (gameStarted) { .. if (!paused && !showOptionsMenu) {: the gameplay tick runs
Ticking(g) == g.game.gameStarted /\ ~g.game.paused /\ ~g.game.showOptionsMenu

\* a tick that takes SCORE_WRONG_HIT off the score when the status check, not
\* a hit, ends the wave
UpdateStepFinesEscape(g, pt, dt) ==
    LET gm == g.game IN
    CHOOSE r \in UNION {UNION {
        {[game |-> [gm EXCEPT
                      !.gepard = [UpdateGepard(gm.gepard, dt) EXCEPT !.turretIndex =
                                     GetTurretIndexFromMouse(pt.x \div FP, SCREEN_WIDTH)],
                      !.drones = up.drones,
                      !.projectiles = up.projectiles,
                      !.ammo = up.ammo,
                      !.score = IF ~status.shahedFound /\ up.shahedActive
                                    THEN up.score + SCORE_WRONG_HIT
                                    ELSE up.score,
                      !.shahedActive = IF ~status.shahedFound THEN FALSE
                                       ELSE up.shahedActive,
                      !.spawnTimer = gm.spawnTimer + dt],
          obs  |-> [g.obs EXCEPT !.ticked = TRUE, !.log = up.log, !.status = status,
                                 !.mouseX = pt.x \div FP,
                                 !.pool = [updated |-> TRUE, before |-> ds,
                                           after |-> up.drones]]] :
            status \in {CheckDroneStatus(up.drones)}} :
            up \in {UpdateProjectiles(gm.projectiles, ds, gm.ammo, gm.score,
                                      gm.shahedActive, dt)}} :
            ds \in {UpdateDrones(gm.drones, dt)}} : TRUE

\* the tick up to "Update shahedActive status"
UpdateStep(g, pt, dt) ==
    LET gm == g.game IN
    CHOOSE r \in UNION {UNION {
        {[game |-> [gm EXCEPT
                      !.gepard = [UpdateGepard(gm.gepard, dt) EXCEPT !.turretIndex =
                                     GetTurretIndexFromMouse(pt.x \div FP, SCREEN_WIDTH)],
                      !.drones = up.drones,
                      !.projectiles = up.projectiles,
                      !.ammo = up.ammo,
                      !.score = up.score,
                      !.shahedActive = IF ~status.shahedFound THEN FALSE
                                       ELSE up.shahedActive,
                      !.spawnTimer = gm.spawnTimer + dt],
          obs  |-> [g.obs EXCEPT !.ticked = TRUE, !.log = up.log, !.status = status,
                                 !.mouseX = pt.x \div FP,
                                 !.pool = [updated |-> TRUE, before |-> ds,
                                           after |-> up.drones]]] :
            status \in {CheckDroneStatus(up.drones)}} :
            up \in {UpdateProjectiles(gm.projectiles, ds, gm.ammo, gm.score,
                                      gm.shahedActive, dt)}} :
            ds \in {UpdateDrones(gm.drones, dt)}} : TRUE

\* if (!shahedActive && spawnTimer > RESPAWN_DELAY)
SpawnDue(g) == ~g.game.shahedActive /\ g.game.spawnTimer > RESPAWN_DELAY

\* the lowest slot whose drone is Flying and contains the click point
ClickedDrones(ds, pt) == {i \in DroneIdx : IsFlying(ds[i]) /\ PointInDrone(pt, ds[i])}
FirstClicked(ds, pt) == CHOOSE i \in ClickedDrones(ds, pt) :
                            \A j \in ClickedDrones(ds, pt) : i <= j

\* "Handle shooting": what a click that fires does
Fire(g, pt) ==
    LET gm == g.game
        i  == FirstClicked(gm.drones, pt)
        c  == DroneCenter(gm.drones[i])
        b1 == GetBarrelPosition(TRUE)
        b2 == GetBarrelPosition(FALSE)
        bc == [x |-> (b1.x + b2.x) \div 2, y |-> (b1.y + b2.y) \div 2]
        p1 == SpawnProjectile(gm.projectiles, b1,
                  [x |-> c.x - DRONE_TARGET_OFFSET * FP, y |-> c.y], i)
        p2 == SpawnProjectile(p1, b2,
                  [x |-> c.x + DRONE_TARGET_OFFSET * FP, y |-> c.y], i)
        p3 == SpawnProjectile(p2, bc, c, i)
    IN  [g EXCEPT !.game.ammo = @ - SHOT_COST,
                  !.game.gepard = [@ EXCEPT !.isFiring = TRUE, !.fireTimer = 0,
                                            !.fireFrame = 1],
                  !.game.projectiles = p3,
                  !.obs.fire = [fired |-> TRUE, target |-> i,
                                ammoBefore |-> gm.ammo,
                                scoreBefore |-> gm.score,
                                shahed |-> gm.drones[i].isShahed,
                                launched |->
                                    Cardinality({k \in ProjIdx :
                                        p3[k].active /\ ~gm.projectiles[k].active}),
                                alone |->
                                    \A k \in ProjIdx : ~gm.projectiles[k].active]]

\* a fire condition that does not look at ammo
FiresOnCredit(g, ev, pt) ==
    /\ MouseLeft(ev) /\ ~g.game.gepard.isFiring
    /\ ClickedDrones(g.game.drones, pt) # {}

\* if (IsMouseButtonPressed(MOUSE_LEFT_BUTTON) && !gepard.isFiring && ammo >= SHOT_COST)
\* and a Flying drone contains the point
Fires(g, ev, pt) ==
    /\ MouseLeft(ev) /\ ~g.game.gepard.isFiring /\ g.game.ammo >= SHOT_COST
    /\ ClickedDrones(g.game.drones, pt) # {}

\* the record of what a click found (g) and left (f) in the shooting step
Clicked(g, f, pt) ==
    [f EXCEPT !.obs.click =
        [clicked |-> TRUE, pt |-> pt, drones |-> g.game.drones,
         ammoBefore |-> g.game.ammo, ammoAfter |-> f.game.ammo,
         gepardBefore |-> g.game.gepard, gepardAfter |-> f.game.gepard,
         projectilesBefore |-> g.game.projectiles,
         projectilesAfter |-> f.game.projectiles]]

\* "Handle shooting"
Shooting(g, ev, pt) ==
    IF MouseLeft(ev)
        THEN CHOOSE c \in {Clicked(g, f, pt) :
                              f \in {IF Fires(g, ev, pt) THEN Fire(g, pt) ELSE g}} : TRUE
        ELSE g

\* a restart that leaves the drone slots as they are
GameOverCheckKeepsDrones(g, ev) ==
    IF g.game.ammo < SHOT_COST /\ ~g.obs.status.canWin /\ g.obs.status.aliveCount = 0
       /\ KeyR(ev)
    THEN [g EXCEPT !.game.ammo = INITIAL_AMMO,
                   !.game.score = 0,
                   !.game.levelSelected = FALSE,
                   !.game.gameStarted = FALSE,
                   !.game.shahedActive = FALSE,
                   !.game.paused = FALSE,
                   !.game.spawnTimer = 0,
                   !.obs.restarted = TRUE,
                   !.obs.restartAmmo = g.game.ammo]
    ELSE g

\* a restart that does not ask whether a shot can still be paid
GameOverCheckAnyAmmo(g, ev) ==
    IF ~g.obs.status.canWin /\ g.obs.status.aliveCount = 0 /\ KeyR(ev)
    THEN [g EXCEPT !.game.ammo = INITIAL_AMMO,
                   !.game.score = 0,
                   !.game.levelSelected = FALSE,
                   !.game.gameStarted = FALSE,
                   !.game.shahedActive = FALSE,
                   !.game.paused = FALSE,
                   !.game.spawnTimer = 0,
                   !.game.drones = [i \in DroneIdx |->
                                       [g.game.drones[i] EXCEPT !.active = FALSE]],
                   !.game.projectiles = [i \in ProjIdx |->
                                            [g.game.projectiles[i] EXCEPT !.stale = TRUE]],
                   !.obs.restarted = TRUE,
                   !.obs.restartAmmo = g.game.ammo]
    ELSE g

\* "Game over check", with the drone status computed before the spawn step;
\* restartAmmo: the ammo that the check of a frame that restarted found
GameOverCheck(g, ev) ==
    IF g.game.ammo < SHOT_COST /\ ~g.obs.status.canWin /\ g.obs.status.aliveCount = 0
       /\ KeyR(ev)
    THEN [g EXCEPT !.game.ammo = INITIAL_AMMO,
                   !.game.score = 0,
                   !.game.levelSelected = FALSE,
                   !.game.gameStarted = FALSE,
                   !.game.shahedActive = FALSE,
                   !.game.paused = FALSE,
                   !.game.spawnTimer = 0,
                   !.game.drones = [i \in DroneIdx |->
                                       [g.game.drones[i] EXCEPT !.active = FALSE]],
                   !.game.projectiles = [i \in ProjIdx |->
                                            [g.game.projectiles[i] EXCEPT !.stale = TRUE]],
                   !.obs.restarted = TRUE,
                   !.obs.restartAmmo = g.game.ammo]
    ELSE g

\* ------------------------------------------------------------------ inputs
\* GetFrameTime(): short frames while a projectile flies, long ones otherwise
InFlight == \E i \in ProjIdx : projectiles[i].active
FrameTimes ==
    IF schedule # << >> THEN {Head(schedule)}
    ELSE IF InFlight THEN {ShortFrame} ELSE {LongFrame}

\* where the mouse rests when the player does not click
IdlePoint == [x |-> 0, y |-> 0]

\* the middle of the "allow negative results" checkbox
CheckboxPoint == [x |-> (SCREEN_WIDTH \div 2 + 180 + 15) * FP,
                  y |-> (SCREEN_HEIGHT \div 2 - 30 + 15) * FP]

\* InitWindow(screenWidth, screenHeight, ..): the window opens at the game's size
InitialWindow == [width |-> SCREEN_WIDTH, height |-> SCREEN_HEIGHT]

\* ctx.mousePos of CalculateRenderContext for the raw mouse position (rawX, rawY)
\* in a window win: (raw - offset) / scale, scale the smaller of scaleX, scaleY
MousePos(win, rawX, rawY) ==
    IF win.width * SCREEN_HEIGHT < win.height * SCREEN_WIDTH
        THEN [x |-> (rawX * SCREEN_WIDTH * FP) \div win.width,
              y |-> ((2 * rawY - win.height) * SCREEN_WIDTH * FP
                        + SCREEN_HEIGHT * win.width * FP) \div (2 * win.width)]
        ELSE [x |-> ((2 * rawX - win.width) * SCREEN_HEIGHT * FP
                        + SCREEN_WIDTH * win.height * FP) \div (2 * win.height),
              y |-> (rawY * SCREEN_HEIGHT * FP) \div win.height]

\* the mouse position nearest to the point p that the window lets the mouse take
Reachable(p) ==
    LET lo == MousePos(window, 0, 0)
        hi == MousePos(window, window.width, window.height)
    IN  [x |-> Max(lo.x, Min(hi.x, p.x)), y |-> Max(lo.y, Min(hi.y, p.y))]

\* the mouse position nearest to the centre of drone d
AimPoint(d) == Reachable(DroneCenter(d))

\* a mouse position over the nose of drone d, an eighth of its width from its
\* left edge: the drone that flies ahead of d in the same wave covers it too
NosePoint(d) == Reachable([x |-> d.x + DroneWidth \div 8, y |-> DroneCenter(d).y])

\* the centre of the place where SpawnDrones puts the first drone of a wave
SpawnPoint ==
    DroneCenter([x |-> DRONE_SPAWN_X * FP, y |-> DRONE_SPAWN_Y_MIN * FP])

\* the points the player clicks in a frame of length dt: on a drone that is
\* Flying under the mouse when the frame handles the click, on the place where
\* a wave appears if the window lets the mouse go there, or on nothing
ClickPoints(dt) ==
    {pt \in UNION {{AimPoint(UpdateDrone(drones[i], dt)),
                    NosePoint(UpdateDrone(drones[i], dt))} : i \in DroneIdx} :
        \E j \in DroneIdx : /\ IsFlying(UpdateDrone(drones[j], dt))
                            /\ PointInDrone(pt, UpdateDrone(drones[j], dt))}
    \cup {pt \in {SpawnPoint} : Reachable(pt) = pt}
    \cup {IdlePoint}

\* ------------------------------------------------------------ specification
NoGen == [called |-> FALSE]

Init ==
    /\ drones = [i \in DroneIdx |-> ZeroDrone]
    /\ projectiles = [i \in ProjIdx |-> ZeroProjectile]
    /\ gepard = [turretIndex |-> 0, fireTimer |-> 0, isFiring |-> FALSE, fireFrame |-> 0]
    /\ currentEquation = ZeroEquation
    /\ ammo = INITIAL_AMMO
    /\ score = 0
    /\ level = 1
    /\ shahedActive = FALSE
    /\ spawnTimer = 0
    /\ activeDroneCount = 0
    /\ levelSelected = FALSE
    /\ gameStarted = FALSE
    /\ paused = FALSE
    /\ showOptionsMenu = FALSE
    /\ allowNegativeResults = FALSE
    /\ frame = IdleFrame
    /\ shots = BootShots
    /\ waves = BootWaves
    /\ gen = NoGen
    /\ samples = RandSamples
    /\ lastFire = NoFire
    /\ schedule = << >>
    /\ window = InitialWindow

\* the new values of the variables after a frame that ends in g
Becomes(g) ==
    /\ drones' = g.game.drones
    /\ projectiles' = g.game.projectiles
    /\ gepard' = g.game.gepard
    /\ currentEquation' = g.game.currentEquation
    /\ ammo' = g.game.ammo
    /\ score' = g.game.score
    /\ level' = g.game.level
    /\ shahedActive' = g.game.shahedActive
    /\ spawnTimer' = g.game.spawnTimer
    /\ activeDroneCount' = g.game.activeDroneCount
    /\ levelSelected' = g.game.levelSelected
    /\ gameStarted' = g.game.gameStarted
    /\ paused' = g.game.paused
    /\ showOptionsMenu' = g.game.showOptionsMenu
    /\ allowNegativeResults' = g.game.allowNegativeResults
    /\ frame' = g.obs
    /\ shots' = IF g.obs.fire.fired THEN shots - 1 ELSE shots
    /\ waves' = IF g.obs.spawn.called /\ waves > 0 THEN waves - 1 ELSE waves
    /\ schedule' = IF schedule # << >> THEN Tail(schedule) ELSE schedule
    /\ lastFire' = IF g.obs.fire.fired THEN g.obs.fire ELSE lastFire
    /\ UNCHANGED << gen, samples, window >>

\* a spawn step that restarts the timer without a wave when no shot can be paid
SpawnStepNeedsAmmo(g) ==
    IF ~SpawnDue(g) THEN {g}
    ELSE IF g.game.ammo < SHOT_COST THEN {[g EXCEPT !.game.spawnTimer = 0]}
    ELSE IF waves # 0
        THEN {[NewWave(g, wr) EXCEPT !.game.spawnTimer = 0] : wr \in WaveRolls(g.game)}
    ELSE {}

\* the states the spawn step can leave a tick that reached it in g
SpawnStep(g) ==
    IF ~SpawnDue(g) THEN {g}
    ELSE IF waves # 0
        THEN {[NewWave(g, wr) EXCEPT !.game.spawnTimer = 0] : wr \in WaveRolls(g.game)}
    ELSE {}

\* the gameplay tick from the spawn step on, for a tick that reached it in g
FinishTick(g, ev, pt) ==
    \E w \in SpawnStep(g) :
        \E f \in {Shooting(w, ev, pt)} : Becomes(GameOverCheck(f, ev))

\* the frame after the level-selection block, which left g
AfterSelection(g, ev, pt, dt) ==
    \E g2 \in {PauseKey(OptionsMenu(g, ev, pt), ev)} :
        IF Ticking(g2)
            THEN \E g3 \in {UpdateStep(g2, pt, dt)} : FinishTick(g3, ev, pt)
            ELSE Becomes(g2)

\* the states the level-selection block can leave a frame that entered it in g
SelectionStep(g, ev) ==
    IF ~Selecting(g, ev) THEN {g}
    ELSE IF waves # 0
        THEN {NewWave(s, wr) : s \in {SelectLevel(g, ev)},
                               wr \in WaveRolls(SelectLevel(g, ev).game)}
    ELSE {}

\* one iteration of the main loop with the inputs (ev, pt, dt)
Frame(ev, pt, dt) ==
    \E g0 \in {OptionsKey([game |-> Game, obs |-> IdleFrame], ev)} :
        \E g1 \in SelectionStep(g0, ev) : AfterSelection(g1, ev, pt, dt)

\* a frame without input
NoInput == \E dt \in FrameTimes : Frame("none", IdlePoint, dt)

\* KEY_O
PressOptions == \E dt \in FrameTimes : Frame("O", IdlePoint, dt)

\* KEY_ONE, KEY_TWO, KEY_THREE
LevelKeys == {k \in {"1", "2", "3"} : LevelOfKey(k) <= MaxLevel}
PressLevel == \E k \in LevelKeys, dt \in FrameTimes : Frame(k, IdlePoint, dt)

\* KEY_SPACE
PressPause == \E dt \in FrameTimes : Frame("space", IdlePoint, dt)

\* MOUSE_LEFT_BUTTON
Click ==
    /\ shots > 0
    /\ \E dt \in FrameTimes : \E pt \in ClickPoints(dt) : Frame("click", pt, dt)

\* KEY_R
PressRestart == \E dt \in FrameTimes : Frame("R", IdlePoint, dt)

\* MOUSE_LEFT_BUTTON and KEY_R in the same frame
ClickAndRestart ==
    /\ shots > 0
    /\ \E dt \in FrameTimes : \E pt \in ClickPoints(dt) : Frame("click+R", pt, dt)

Next ==
    \/ NoInput
    \/ PressOptions
    \/ PressLevel
    \/ PressPause
    \/ Click
    \/ PressRestart
    \/ ClickAndRestart

Spec == Init /\ [][Next]_vars

\* ------------------------------------------------------- a match in progress
\* A drone of a wave, x pixels from the left edge, flying at the spawn height.
FlyingDrone(xpx, ans, shahed) ==
    [x |-> xpx * FP, y |-> DRONE_SPAWN_Y_MIN * FP, answer |-> ans,
     isShahed |-> shahed, state |-> DRONE_FLYING, animTimer |-> 0, active |-> TRUE]

\* seconds of flight that take a drone xpx pixels to the left, in time units
FlightTime(xpx) == (xpx * TPS) \div DRONE_SPEED

\* The player has hit the target of each of the first h waves with one shot
\* each (ammo INITIAL_AMMO - h * SHOT_COST + h * HIT_REWARD, score
\* h * SCORE_CORRECT_HIT, h <= 10 so that the cap was not reached before), the
\* decoys of those waves have left the screen, and the wave of 1 + 11 = 12 that
\* followed the last hit has flown 350 pixels: target in slot 0, decoy in slot 1.
Streaks == {0, 10}
AfterStreak(h) ==
    [drones |-> [i \in DroneIdx |->
                    IF i = 0 THEN FlyingDrone(DRONE_SPAWN_X - 350, 12, TRUE)
                    ELSE IF i = 1
                        THEN FlyingDrone(DRONE_SPAWN_X + DRONE_SPAWN_SPACING - 350,
                                         2, FALSE)
                    ELSE ZeroDrone],
     currentEquation |-> Equation(1, "+", 11, 12),
     ammo |-> INITIAL_AMMO + h * (HIT_REWARD - SHOT_COST),
     score |-> h * SCORE_CORRECT_HIT,
     spawnTimer |-> FlightTime(350),
     shots |-> MidShots,
     waves |-> MidWaves,
     samples |-> RandSamples,
     schedule |-> << >>,
     window |-> InitialWindow]

\* The frame times of the match that continues from AfterPromotion: a slow
\* frame, two frames that end the firing animation of a first shot, a frame at
\* 60 frames per second, a stall of 0.3 s, and another short frame.
StallFrames == << 450, 100, 133, 17, 301, 25 >>

\* The end of the frame in which a hit on the target of the second wave (slot
\* 2, Exploding since this frame) spawned the third wave: GenerateNewEquation
\* used up its retries and returned 1 + 11 = 12, the answer that the decoy of
\* the first wave (slot 1, 4.86 s into its flight from x = 1350, spawn height
\* 125) displays, so SpawnDrones made that decoy the target and put one decoy,
\* 12 - 10, into the one free slot. Two shots, both hits: ammo 12, score 20.
AfterPromotion ==
    [drones |-> [i \in DroneIdx |->
                    IF i = 0 THEN FlyingDrone(DRONE_SPAWN_X, 2, FALSE)
                    ELSE IF i = 1
                        THEN [FlyingDrone(1010, 12, TRUE) EXCEPT !.y = 125 * FP]
                    ELSE IF i = 2
                        THEN [FlyingDrone(1000, 7, TRUE) EXCEPT
                                 !.state = DRONE_EXPLODING]
                    ELSE ZeroDrone],
     currentEquation |-> Equation(1, "+", 11, 12),
     ammo |-> INITIAL_AMMO + 2 * (HIT_REWARD - SHOT_COST),
     score |-> 2 * SCORE_CORRECT_HIT,
     spawnTimer |-> 0,
     shots |-> StallShots,
     waves |-> StallWaves,
     samples |-> 1,
     schedule |-> StallFrames,
     window |-> InitialWindow]

MidGames == {AfterStreak(h) : h \in Streaks}

\* the match continues from the scenario m
Resume(m) ==
    /\ drones = m.drones
    /\ projectiles = [i \in ProjIdx |-> ZeroProjectile]
    /\ gepard = [turretIndex |-> 0, fireTimer |-> 0, isFiring |-> FALSE,
                 fireFrame |-> 0]
    /\ currentEquation = m.currentEquation
    /\ ammo = m.ammo
    /\ score = m.score
    /\ level = 1
    /\ shahedActive = TRUE
    /\ spawnTimer = m.spawnTimer
    /\ activeDroneCount = DRONE_MIN_COUNT
    /\ levelSelected = TRUE
    /\ gameStarted = TRUE
    /\ paused = FALSE
    /\ showOptionsMenu = FALSE
    /\ allowNegativeResults = FALSE
    /\ frame = IdleFrame
    /\ shots = m.shots
    /\ waves = m.waves
    /\ gen = NoGen
    /\ samples = m.samples
    /\ lastFire = NoFire
    /\ schedule = m.schedule
    /\ window = m.window

InitMid == \E m \in MidGames : Resume(m)

SpecMid == InitMid /\ [][Next]_vars

InitStall == Resume(AfterPromotion)
SpecStall == InitStall /\ [][Next]_vars

\* ------------------------------------------------------------------ claims
\* The frame times of the match that continues from AfterWrongHit: 25 frames
\* per second for a third of a second.
FallFrames == << 40, 40, 40, 40, 40, 40, 40, 40 >>

\* AfterStreak(0) continued by one click on the decoy: 0.25 s later a
\* projectile hit it (score SCORE_WRONG_HIT, ammo INITIAL_AMMO - SHOT_COST) and
\* it has been Falling for 0.1 s; the target of 1 + 11 = 12 flies on.
AfterWrongHit ==
    [drones |-> [i \in DroneIdx |->
                    IF i = 0 THEN FlyingDrone(825, 12, TRUE)
                    ELSE IF i = 1
                        THEN [FlyingDrone(979, 2, FALSE) EXCEPT
                                 !.y = (DRONE_SPAWN_Y_MIN + 15) * FP,
                                 !.state = DRONE_FALLING,
                                 !.animTimer = TPS \div 10]
                    ELSE ZeroDrone],
     currentEquation |-> Equation(1, "+", 11, 12),
     ammo |-> INITIAL_AMMO - SHOT_COST,
     score |-> SCORE_WRONG_HIT,
     spawnTimer |-> FlightTime(350) + (35 * TPS) \div 100,
     shots |-> FallShots,
     waves |-> FallWaves,
     samples |-> RandSamples,
     schedule |-> FallFrames,
     window |-> InitialWindow]

InitFall == Resume(AfterWrongHit)
SpecFall == InitFall /\ [][Next]_vars

\* A borderless window on a 2560 x 1080 monitor (KEY_F), wider than the game.
WideWidth == 2560
WideHeight == 1080

\* The frame times of the match that continues from AfterLanding: a frame of
\* 40 ms and a stall of 25 s; the frames after them follow FrameTimes.
OverFrames == << 40, 25000 >>

\* The end of the frame in which the target of a wave (7, slot 0), which had
\* crossed DRONE_LEFT_BOUNDARY and fallen for 2.09 s, reached the ground and
\* started Exploding. The spawn step of the tick of the crossing found one free
\* slot and put only a decoy of its wave there (4, slot 2); the two spawn steps
\* since then, the last one in this frame, found no free slot. The decoy of
\* the target's own wave (5, slot 1) still flies. One correct hit and four
\* wrong hits in the waves before: ammo 3, score -10.
AfterLanding ==
    [drones |-> [i \in DroneIdx |->
                    IF i = 0
                        THEN [FlyingDrone(26, 7, TRUE) EXCEPT
                                 !.y = (GROUND_LEVEL + GROUND_EXPLOSION_OFFSET) * FP,
                                 !.state = DRONE_EXPLODING]
                    ELSE IF i = 1 THEN FlyingDrone(103, 5, FALSE)
                    ELSE IF i = 2 THEN FlyingDrone(1053, 4, FALSE)
                    ELSE ZeroDrone],
     currentEquation |-> Equation(1, "+", 11, 12),
     ammo |-> INITIAL_AMMO + (HIT_REWARD - SHOT_COST) - 4 * SHOT_COST,
     score |-> SCORE_CORRECT_HIT + 4 * SCORE_WRONG_HIT,
     spawnTimer |-> 0,
     shots |-> OverShots,
     waves |-> OverWaves,
     samples |-> 1,
     schedule |-> OverFrames,
     window |-> [width |-> WideWidth, height |-> WideHeight]]

InitOver == Resume(AfterLanding)
SpecOver == InitOver /\ [][Next]_vars

\* ------------------------------------------------ two drones, one answer
\* AfterStreak(0) continued by one click on the target (12, slot 0). The tick
\* in which a projectile hit it (ammo 11, score 10) spawned the next wave:
\* GenerateNewEquation returned 1 + 11 = 12 again, and SpawnDrones, whose
\* retry loop for the decoy drew 12 - 10 = 2 fifty times, the answer of the
\* Flying decoy of slot 1, put that decoy into the one free slot (slot 2). The
\* tick of the next frame, 5 s long, found the drone of slot 0 Dead and no
\* target Flying: GenerateNewEquation used up its retries and returned
\* 1 + 1 = 2, so SpawnDrones marked both drones that display 2 as targets and
\* put one decoy, 2 - 10, into slot 0. This is the end of that frame; the
\* frames that follow take the times of FallFrames.
TwinShots == 1
TwinWaves == 1
AfterTwins ==
    [drones |-> [i \in DroneIdx |->
                    IF i = 0 THEN FlyingDrone(DRONE_SPAWN_X, 2 - DecoyOffsetShift, FALSE)
                    ELSE IF i = 1
                        THEN [FlyingDrone(290, 2, TRUE) EXCEPT !.x = 290 * FP - 2]
                    ELSE IF i = 2 THEN FlyingDrone(DRONE_SPAWN_X - 350, 2, TRUE)
                    ELSE ZeroDrone],
     currentEquation |-> Equation(1, "+", 1, 2),
     ammo |-> INITIAL_AMMO - SHOT_COST + HIT_REWARD,
     score |-> SCORE_CORRECT_HIT,
     spawnTimer |-> 0,
     shots |-> TwinShots,
     waves |-> TwinWaves,
     samples |-> 1,
     schedule |-> FallFrames,
     window |-> InitialWindow]

InitTwin == Resume(AfterTwins)

SpecTwin == InitTwin /\ [][Next]_vars

\* --------------------------------------------------- the match runs on
\* AfterLanding, had the player made one more wrong hit in the waves before:
\* ammo 1, which pays no shot, score -15.
OutOfAmmo ==
    [AfterLanding EXCEPT !.ammo = AfterLanding.ammo - SHOT_COST,
                         !.score = AfterLanding.score + SCORE_WRONG_HIT]

\* The matches of AfterStreak(0), AfterWrongHit and OutOfAmmo run on without
\* input and without a bound on the waves: every frame is a gameplay tick.
\* The first frames, up to RunLength of them, take 1 s or 2.5 s each; the
\* frames after them follow FrameTimes.
RunSchedules == UNION {[1 .. n -> {TPS, (5 * TPS) \div 2}] : n \in 0 .. RunLength}
InitRun ==
    \E m \in {AfterStreak(0), AfterWrongHit, OutOfAmmo} : \E sch \in RunSchedules :
        Resume([m EXCEPT !.shots = 0, !.waves = -1, !.samples = 1,
                         !.schedule = sch])
NextRun == NoInput
SpecRun == InitRun /\ [][NextRun]_vars /\ WF_vars(NoInput)

\* The match of AfterStreak(0) runs on with no input but VolleyShots clicks.
\* The first frames take the times of VolleyFrames, a frame of 2.5 s among
\* them; the frames after them follow FrameTimes.
VolleyFrames == << 40, (5 * TPS) \div 2 >>
InitVolley ==
    Resume([AfterStreak(0) EXCEPT !.shots = VolleyShots, !.waves = -1,
                                  !.samples = 1, !.schedule = VolleyFrames])
NextVolley == NoInput \/ Click
SpecVolley == InitVolley /\ [][NextVolley]_vars /\ WF_vars(NoInput)

\* The same match with RapidShots clicks and first frames of 60 ms each: a
\* fire animation is over after two frames, a projectile flies for five.
RapidFrames == << 60, 60, 60, 60, 60, 60 >>
InitRapid ==
    Resume([AfterStreak(0) EXCEPT !.shots = RapidShots, !.waves = -1,
                                  !.samples = 1, !.schedule = RapidFrames])
NextRapid == NoInput \/ Click
SpecRapid == InitRapid /\ [][NextRapid]_vars

\* ------------------------------------------- GenerateNewEquation run alone
\* The pools a call may find: empty, one or two Flying drones, and a pool
\* whose drone in slot 0 displays 12 while Exploding.
GenPools ==
    {[i \in DroneIdx |-> ZeroDrone],
     [i \in DroneIdx |-> IF i = 0 THEN FlyingDrone(900, 12, FALSE) ELSE ZeroDrone],
     [i \in DroneIdx |-> IF i = 0 THEN FlyingDrone(900, 12, FALSE)
                         ELSE IF i = 1 THEN FlyingDrone(1050, 5, FALSE)
                         ELSE ZeroDrone],
     [i \in DroneIdx |-> IF i = 0 THEN [FlyingDrone(900, 12, TRUE) EXCEPT
                                           !.state = DRONE_EXPLODING]
                         ELSE IF i = 1 THEN FlyingDrone(1050, 7, FALSE)
                         ELSE ZeroDrone]}

\* int attempts = 0; on entry of GenerateNewEquation
GenEntry == [called |-> TRUE, eq |-> ZeroEquation, attempts |-> 0,
             returned |-> FALSE, allCollided |-> TRUE]

InitGen ==
    /\ drones \in GenPools
    /\ projectiles = [i \in ProjIdx |-> ZeroProjectile]
    /\ gepard = [turretIndex |-> 0, fireTimer |-> 0, isFiring |-> FALSE, fireFrame |-> 0]
    /\ currentEquation = ZeroEquation
    /\ ammo = INITIAL_AMMO
    /\ score = 0
    /\ level \in 1 .. MaxGenLevel
    /\ shahedActive = FALSE
    /\ spawnTimer = 0
    /\ activeDroneCount = DRONE_MIN_COUNT
    /\ levelSelected = TRUE
    /\ gameStarted = TRUE
    /\ paused = FALSE
    /\ showOptionsMenu = FALSE
    /\ allowNegativeResults \in BOOLEAN
    /\ frame = IdleFrame
    /\ shots = 0
    /\ waves = 0
    /\ gen = GenEntry
    /\ samples = GenSamples
    /\ lastFire = NoFire
    /\ schedule = << >>
    /\ window = InitialWindow

\* one pass of the loop of the call in progress
GenPass ==
    /\ ~gen.returned
    /\ \E c \in EquationCandidates(level, allowNegativeResults) :
           gen' = GenerateStep(gen, c, drones)
    /\ UNCHANGED << drones, projectiles, gepard, currentEquation, ammo, score,
                    level, shahedActive, spawnTimer, activeDroneCount,
                    levelSelected, gameStarted, paused, showOptionsMenu,
                    allowNegativeResults, frame, shots, waves, samples, lastFire,
                    schedule, window >>

NextGen == GenPass

SpecGen == InitGen /\ [][NextGen]_vars

\* the call keeps running: a pass that can be taken is taken
SpecGenFair == SpecGen /\ WF_vars(GenPass)

\* ------------------------------------------------------ the turret alone
\* the mouse positions (pixels) that GetTurretIndexFromMouse is called with
MousePositions == (0 - MouseMargin) .. (SCREEN_WIDTH + MouseMargin)

\* gepard.turretIndex = GetTurretIndexFromMouse(ctx.mousePos.x, screenWidth)
AimedGepard(x) ==
    [turretIndex |-> GetTurretIndexFromMouse(x, SCREEN_WIDTH),
     fireTimer |-> 0, isFiring |-> FALSE, fireFrame |-> 0]

InitAim ==
    /\ drones = [i \in DroneIdx |-> ZeroDrone]
    /\ projectiles = [i \in ProjIdx |-> ZeroProjectile]
    /\ \E x \in MousePositions :
           /\ gepard = AimedGepard(x)
           /\ frame = [IdleFrame EXCEPT !.mouseX = x]
    /\ currentEquation = ZeroEquation
    /\ ammo = INITIAL_AMMO
    /\ score = 0
    /\ level = 1
    /\ shahedActive = FALSE
    /\ spawnTimer = 0
    /\ activeDroneCount = 0
    /\ levelSelected = TRUE
    /\ gameStarted = TRUE
    /\ paused = FALSE
    /\ showOptionsMenu = FALSE
    /\ allowNegativeResults = FALSE
    /\ shots = 0
    /\ waves = 0
    /\ gen = NoGen
    /\ samples = RandSamples
    /\ lastFire = NoFire
    /\ schedule = << >>
    /\ window = InitialWindow

\* the mouse moves and the tick aims the turret again
Aim ==
    /\ \E x \in MousePositions :
           /\ x - frame.mouseX <= MouseJump
           /\ frame.mouseX - x <= MouseJump
           /\ gepard' = AimedGepard(x)
           /\ frame' = [IdleFrame EXCEPT !.mouseX = x]
    /\ UNCHANGED << drones, projectiles, currentEquation, ammo, score, level,
                    shahedActive, spawnTimer, activeDroneCount, levelSelected,
                    gameStarted, paused, showOptionsMenu, allowNegativeResults,
                    shots, waves, gen, samples, lastFire, schedule, window >>

NextAim == Aim
SpecAim == InitAim /\ [][NextAim]_vars

\* ------------------------------- the wrong-answer loop of SpawnDrones alone
\* existingAnswers[]: the answers of the active Flying drones
ExistingAnswers(ds) == {ds[j].answer : j \in {i \in DroneIdx : IsFlying(ds[i])}}

\* the equations a wave is spawned for
DecoyEquations == {Equation(1, "+", 1, 2), Equation(1, "+", 11, 12)}

\* answers[0 .. i-1] when the loop for answers[i] begins: none, the correct
\* answer, or a wrong answer at offset -3
EarlierAnswers(correct) == {<< >>, << correct >>, << correct - 3 >>}

\* bool duplicate; int attempts = 0; before the do-while loop of answers[i]
DecoyEntry(earlier) ==
    [called |-> FALSE, answers |-> earlier, answer |-> 0, duplicate |-> FALSE,
     attempts |-> 0, left |-> FALSE]

\* a pass that keeps the offset 0
DecoyStepKeepsZero(g, r, correct, existing) ==
    LET a   == correct + (r - DecoyOffsetShift)
        dup == a \in existing \/ a \in SeqToSet(g.answers)
        n   == g.attempts + 1
    IN  [g EXCEPT !.answer = a, !.duplicate = dup, !.attempts = n,
                  !.left = n > DecoyAttemptLimit \/ ~(dup /\ n < DecoyAttemptLimit)]

\* One pass of the do-while loop of answers[i] over its state g, with the draw
\* r = rand() % 20: the candidate is stored, compared with the answers on
\* screen and with answers[0 .. i-1], attempts is incremented, and the loop is
\* left by the break or when the while condition fails.
DecoyStep(g, r, correct, existing) ==
    LET raw    == r - DecoyOffsetShift
        offset == IF raw = 0 THEN DecoyZeroOffset ELSE raw
        a      == correct + offset
        dup    == a \in existing \/ a \in SeqToSet(g.answers)
        n      == g.attempts + 1
    IN  [g EXCEPT !.answer = a, !.duplicate = dup, !.attempts = n,
                  !.left = n > DecoyAttemptLimit \/ ~(dup /\ n < DecoyAttemptLimit)]

InitDecoy ==
    /\ drones \in GenPools
    /\ projectiles = [i \in ProjIdx |-> ZeroProjectile]
    /\ gepard = [turretIndex |-> 0, fireTimer |-> 0, isFiring |-> FALSE, fireFrame |-> 0]
    /\ currentEquation \in DecoyEquations
    /\ ammo = INITIAL_AMMO
    /\ score = 0
    /\ level = 1
    /\ shahedActive = FALSE
    /\ spawnTimer = 0
    /\ activeDroneCount = DRONE_MIN_COUNT
    /\ levelSelected = TRUE
    /\ gameStarted = TRUE
    /\ paused = FALSE
    /\ showOptionsMenu = FALSE
    /\ allowNegativeResults = FALSE
    /\ frame = IdleFrame
    /\ shots = 0
    /\ waves = 0
    /\ \E earlier \in EarlierAnswers(currentEquation.correctAnswer) :
           gen = DecoyEntry(earlier)
    /\ samples = RandSamples
    /\ lastFire = NoFire
    /\ schedule = << >>
    /\ window = InitialWindow

\* one pass of the loop in progress
DecoyPass ==
    /\ ~gen.left
    /\ \E r \in 0 .. DecoyOffsetSpan - 1 :
           gen' = DecoyStep(gen, r, currentEquation.correctAnswer,
                            ExistingAnswers(drones))
    /\ UNCHANGED << drones, projectiles, gepard, currentEquation, ammo, score,
                    level, shahedActive, spawnTimer, activeDroneCount,
                    levelSelected, gameStarted, paused, showOptionsMenu,
                    allowNegativeResults, frame, shots, waves, samples, lastFire,
                    schedule, window >>

NextDecoy == DecoyPass
SpecDecoy == InitDecoy /\ [][NextDecoy]_vars

\* ------------------------------------------------------------------ claims
Targets == {i \in DroneIdx : IsFlying(drones[i]) /\ drones[i].isShahed}

\* C1: in every reachable state of a started game, and so after every
\* SpawnDrones call, at most one active drone in state Flying has isShahed.
AtMostOneTarget == gameStarted => Cardinality(Targets) <= 1

\* the passes of the last UpdateProjectiles call, in processing order
Passes == 1 .. Len(frame.log)

\* pass k found its projectile within the hit radius of the drone in its slot
\* after an earlier pass j of the same call had found that drone Flying there
SecondOnSameDrone(j, k) ==
    /\ j < k
    /\ frame.log[j].target = frame.log[k].target
    /\ frame.log[j].near /\ frame.log[k].near
    /\ IsFlying(frame.log[j].droneBefore)

\* pass k changed neither score nor ammo nor the drone
NoEffect(k) ==
    /\ frame.log[k].scoreAfter = frame.log[k].scoreBefore
    /\ frame.log[k].ammoAfter = frame.log[k].ammoBefore
    /\ frame.log[k].droneAfter = frame.log[k].droneBefore

\* C2 as stated: of two projectiles of one slot that are within the hit radius
\* of its Flying drone in the same UpdateProjectiles call, the first changes
\* score, ammo or the drone, and the second is deactivated and changes nothing,
\* for a target and for a decoy alike.
SecondProjectileDeactivated ==
    \A j \in Passes, k \in Passes :
        SecondOnSameDrone(j, k) =>
            /\ frame.log[j].effect \in {"correct", "wrong"}
            /\ NoEffect(k)
            /\ ~frame.log[k].stillActive

\* C2, amended: the first of the two changes score, ammo or the drone and the
\* second changes none of them; the second is deactivated when the drone is the
\* target (it is Exploding by then), and when the drone is a decoy (Falling by
\* then) the second stays active unless it left the bounds or outlived its lifetime.
SecondProjectileNoEffect ==
    \A j \in Passes, k \in Passes :
        SecondOnSameDrone(j, k) =>
            /\ frame.log[j].effect \in {"correct", "wrong"}
            /\ NoEffect(k)
            /\ frame.log[j].droneBefore.isShahed => ~frame.log[k].stillActive
            /\ ~frame.log[j].droneBefore.isShahed =>
                   frame.log[k].stillActive = ~frame.log[k].expired

\* two projectiles reached the Flying target in the same call
SecondProjectileOnTarget ==
    \E j \in Passes, k \in Passes :
        /\ SecondOnSameDrone(j, k)
        /\ frame.log[j].effect = "correct"
        /\ frame.log[k].effect = "absorbed"

\* C3: a projectile for which an earlier pass of UpdateProjectiles found no
\* live drone in its slot (the slot's drone inactive or dead, free for
\* SpawnDrones to re-use) changes no drone, neither score nor ammo nor
\* shahedActive in any later pass, and is deactivated only by leaving the
\* bounds or reaching its lifetime.
StaleProjectileInert ==
    \A k \in Passes :
        frame.log[k].stale =>
            /\ frame.log[k].effect = "none"
            /\ NoEffect(k)
            /\ frame.log[k].shahedActiveAfter = frame.log[k].shahedActiveBefore
            /\ frame.log[k].stillActive = ~frame.log[k].expired

AnyFlying == \E i \in DroneIdx : IsFlying(drones[i])
ReturnedDuplicate ==
    gen.called /\ gen.returned /\ AnyFlying
        /\ DuplicateAnswer(gen.eq.correctAnswer, drones)

\* C4 as stated: when GenerateNewEquation returns while a drone is Flying, the
\* correctAnswer is displayed by no Flying drone unless more than
\* GenAttemptLimit candidates in a row, every candidate of the call, collided
\* with the answer of a Flying drone.
NoDuplicateUnlessAllCollided ==
    ReturnedDuplicate => gen.attempts > GenAttemptLimit /\ gen.allCollided

\* C4, amended: when GenerateNewEquation returns while a drone is Flying, the
\* correctAnswer is displayed by no Flying drone unless the call drew more than
\* GenAttemptLimit candidates (the first GenAttemptLimit of them each rejected,
\* as a collision or as a trivial equation); a call that returns within
\* GenAttemptLimit candidates returns an equation that is neither.
NoDuplicateUnlessRetriesSpent ==
    /\ ReturnedDuplicate => gen.attempts = GenAttemptLimit + 1
    /\ gen.called /\ gen.returned /\ gen.attempts <= GenAttemptLimit =>
           /\ ~DuplicateAnswer(gen.eq.correctAnswer, drones)
           /\ ~IsTrivial(gen.eq)

DuplicateAfterTrivialRetries == ReturnedDuplicate /\ ~gen.allCollided

\* the indices of answers[] that SpawnDrones filled with wrong answers
DecoyIndices ==
    {k \in 1 .. frame.spawn.numDrones : k - 1 # frame.spawn.correctIndex}

\* C5: after a SpawnDrones call in which no wrong answer used up its
\* DecoyAttemptLimit attempts, the wrong answers of the wave are pairwise
\* distinct, none equals correctAnswer and none equals the answer of a drone
\* that was Flying when SpawnDrones was called.
DecoysUnique ==
    frame.spawn.called /\ ~frame.spawn.exhausted =>
        \A k \in DecoyIndices :
            /\ frame.spawn.answers[k] # frame.spawn.correctAnswer
            /\ frame.spawn.answers[k] \notin frame.spawn.existingAnswers
            /\ \A m \in DecoyIndices :
                   m # k => frame.spawn.answers[m] # frame.spawn.answers[k]

TwoDecoysBesideFlying ==
    /\ frame.spawn.called /\ ~frame.spawn.exhausted
    /\ Cardinality(DecoyIndices) >= 2
    /\ frame.spawn.existingAnswers # {}

\* the pass k of UpdateProjectiles found its projectile within the hit radius
\* of a Flying drone
HitsFlying(k) == frame.log[k].near /\ IsFlying(frame.log[k].droneBefore)
CorrectHit(k) == HitsFlying(k) /\ frame.log[k].droneBefore.isShahed
WrongHit(k) == HitsFlying(k) /\ ~frame.log[k].droneBefore.isShahed

\* C6: a correct hit sets ammo to min(ammo + HIT_REWARD, MAX_AMMO), ammo never
\* exceeds MAX_AMMO, and a wrong hit leaves ammo unchanged.
AmmoCapped ==
    /\ ammo <= MAX_AMMO
    /\ \A k \in Passes :
           /\ CorrectHit(k) =>
                  /\ frame.log[k].ammoAfter =
                         Min(frame.log[k].ammoBefore + HIT_REWARD, MAX_AMMO)
                  /\ frame.log[k].ammoAfter <= MAX_AMMO
           /\ WrongHit(k) => frame.log[k].ammoAfter = frame.log[k].ammoBefore

CorrectHitAtCap ==
    \E k \in Passes :
        /\ CorrectHit(k)
        /\ frame.log[k].ammoBefore + HIT_REWARD > MAX_AMMO
        /\ frame.log[k].ammoAfter = MAX_AMMO

\* the last click fired at the Flying target while no projectile was in
\* flight, and every projectile has been deactivated since
TargetShotResolved ==
    lastFire.fired /\ lastFire.shahed /\ lastFire.alone /\ ~InFlight

\* C7: after a click on the Flying target with ammo a >= SHOT_COST, once the
\* three projectiles it launched are all deactivated and no other click has
\* fired, ammo is min(a - SHOT_COST + HIT_REWARD, MAX_AMMO) and score is
\* SCORE_CORRECT_HIT higher than before the click.
FireAndResolve ==
    /\ lastFire.fired =>
           lastFire.ammoBefore >= SHOT_COST /\ lastFire.launched = 3
    /\ TargetShotResolved =>
           /\ ammo = Min(lastFire.ammoBefore - SHOT_COST + HIT_REWARD, MAX_AMMO)
           /\ score = lastFire.scoreBefore + SCORE_CORRECT_HIT

WrongHitEffects ==
    \A k \in Passes :
        WrongHit(k) =>
            /\ frame.log[k].scoreAfter = frame.log[k].scoreBefore + SCORE_WRONG_HIT
            /\ frame.log[k].droneAfter.state = DRONE_FALLING
            /\ frame.log[k].droneAfter.animTimer = 0
            /\ frame.log[k].ammoAfter = frame.log[k].ammoBefore
            /\ frame.log[k].shahedActiveAfter = frame.log[k].shahedActiveBefore

\* a drone that falls without being the target (only a wrong hit makes one)
\* is not Exploding after the next frame and, while it falls, stays unmarked
FallingNeverExplodes ==
    \A i \in DroneIdx :
        drones[i].active /\ drones[i].state = DRONE_FALLING /\ ~drones[i].isShahed =>
            /\ drones'[i].state # DRONE_EXPLODING
            /\ drones'[i].state = DRONE_FALLING => ~drones'[i].isShahed

\* C8: a projectile that hits a Flying drone that is not the target changes
\* score by exactly SCORE_WRONG_HIT, puts the drone in DRONE_FALLING with
\* animTimer 0, leaves ammo and shahedActive as they were, and no frame takes
\* the falling drone to DRONE_EXPLODING.
WrongHitFalls == []WrongHitEffects /\ [][FallingNeverExplodes]_vars

WrongHitFromZero ==
    \E k \in Passes :
        /\ WrongHit(k)
        /\ frame.log[k].scoreBefore = 0
        /\ frame.log[k].scoreAfter = -5
        /\ frame.log[k].droneAfter.state = DRONE_FALLING

\* the slots in which the SpawnDrones call of this frame placed a drone
NewlySpawned == {i \in DroneIdx : frame.spawn.after[i] # frame.spawn.before[i]
                                     /\ IsFree(frame.spawn.before[i])}
DisplaysCorrect(i) ==
    IsFlying(frame.spawn.before[i])
        /\ frame.spawn.before[i].answer = frame.spawn.correctAnswer

\* C9: after a SpawnDrones call made while a Flying drone displays the
\* correctAnswer, that drone has isShahed = TRUE, every other drone that was
\* Flying has isShahed = FALSE, and no drone placed by the call is marked or
\* displays correctAnswer.
RetroactivePromotion ==
    frame.spawn.called =>
        \A i \in DroneIdx :
            DisplaysCorrect(i) =>
                /\ frame.spawn.after[i].isShahed
                /\ \A j \in DroneIdx \ {i} :
                       IsFlying(frame.spawn.before[j]) => ~frame.spawn.after[j].isShahed
                /\ \A j \in NewlySpawned :
                       /\ ~frame.spawn.after[j].isShahed
                       /\ frame.spawn.after[j].answer # frame.spawn.correctAnswer

\* C10: immediately after a spawn step (GenerateNewEquation, SpawnDrones,
\* shahedActive = TRUE) some active Flying drone is marked isShahed and
\* displays the correctAnswer of the equation.
EveryWaveHasTarget ==
    frame.spawn.called =>
        \E i \in DroneIdx :
            /\ IsFlying(frame.spawn.after[i])
            /\ frame.spawn.after[i].isShahed
            /\ frame.spawn.after[i].answer = frame.spawn.correctAnswer

\* C11: in every state of a started game, no active drone with isShahed =
\* FALSE, whatever its state, displays the correctAnswer of the current
\* equation.
DecoysNeverCarryAnswer ==
    gameStarted =>
        \A i \in DroneIdx :
            drones[i].active /\ ~drones[i].isShahed =>
                drones[i].answer # currentEquation.correctAnswer

\* the call of GenerateNewEquation has returned gen.eq
Returned == gen.called /\ gen.returned

\* C12: every '/' equation that GenerateNewEquation returns has num2 # 0,
\* num1 mod num2 = 0 and num1 / num2 = correctAnswer.
DivisionExact ==
    Returned /\ gen.eq.operation = "/" =>
        /\ gen.eq.num2 # 0
        /\ gen.eq.num1 % gen.eq.num2 = 0
        /\ gen.eq.num1 \div gen.eq.num2 = gen.eq.correctAnswer

DivisionReturned ==
    Returned /\ gen.eq.operation = "/" /\ gen.eq.num1 = 11 * 10 /\ gen.eq.num2 = 10

\* C13: GenerateNewEquation returns only '+' or '-' at level 1, only '+', '-'
\* or '*' at level 2, and '/' at level 3 only, whatever the pool holds.
OperatorsByLevel ==
    Returned =>
        /\ gen.eq.operation \in {"+", "-", "*", "/"}
        /\ level = 1 => gen.eq.operation \in {"+", "-"}
        /\ level = 2 => gen.eq.operation \in {"+", "-", "*"}
        /\ gen.eq.operation = "/" => level = 3

LevelOneExhausted ==
    Returned /\ level = 1 /\ AnyFlying /\ gen.attempts > GenAttemptLimit
        /\ gen.eq.operation = "-"

\* C14: with allowNegative false, every '-' equation that GenerateNewEquation
\* returns has num2 <= num1 and correctAnswer = num1 - num2 >= 0.
SubtractionNonNegative ==
    Returned /\ ~allowNegativeResults /\ gen.eq.operation = "-" =>
        /\ gen.eq.num2 <= gen.eq.num1
        /\ gen.eq.correctAnswer = gen.eq.num1 - gen.eq.num2
        /\ gen.eq.correctAnswer >= 0

SubtractionToZero ==
    Returned /\ ~allowNegativeResults /\ gen.eq.operation = "-"
        /\ level > 1 /\ gen.eq.num2 = gen.eq.num1 /\ gen.eq.correctAnswer = 0

\* a call has drawn at most GenAttemptLimit candidates after the first, and
\* with the last of them it has returned
BoundedPasses ==
    gen.called =>
        /\ gen.attempts <= GenAttemptLimit + 1
        /\ gen.attempts = GenAttemptLimit + 1 => gen.returned

\* C15: GenerateNewEquation terminates: it draws at most GenAttemptLimit
\* candidates after the first and returns the last of them even if it is
\* trivial or a duplicate.
GenerateTerminates == []BoundedPasses /\ <>Returned

RejectedReturnedAnyway ==
    Returned /\ gen.attempts = GenAttemptLimit + 1 /\ Rejected(gen.eq, drones)

\* C16: a call of GenerateNewEquation that returns within its retry budget
\* returns no addition with a 0 operand and no subtraction with num2 = 0.
NoTrivialUnlessExhausted ==
    Returned /\ gen.attempts <= GenAttemptLimit =>
        /\ ~(gen.eq.operation = "+" /\ (gen.eq.num1 = 0 \/ gen.eq.num2 = 0))
        /\ ~(gen.eq.operation = "-" /\ gen.eq.num2 = 0)

\* without a Flying drone every rejected candidate was a trivial one
ReturnedAfterTrivial ==
    Returned /\ ~AnyFlying /\ gen.attempts > 1 /\ gen.attempts <= GenAttemptLimit

\* the drones a click could fire at: active, Flying, and containing the point
UnderClick ==
    {i \in DroneIdx : /\ frame.click.drones[i].active
                      /\ frame.click.drones[i].state = DRONE_FLYING
                      /\ PointInDrone(frame.click.pt, frame.click.drones[i])}

\* the projectile slots the shooting step of the frame wrote
Launched ==
    {k \in ProjIdx :
        frame.click.projectilesAfter[k] # frame.click.projectilesBefore[k]}

\* the three conditions of a fire input
FireConditions ==
    /\ frame.click.ammoBefore >= SHOT_COST
    /\ ~frame.click.gepardBefore.isFiring
    /\ UnderClick # {}

\* C17: a click handled by the shooting step fires exactly if ammo >= SHOT_COST,
\* the turret is not firing and the point is in the hit-box of an active Flying
\* drone; a click that fires costs SHOT_COST, starts the fire animation and
\* every projectile it launches references the lowest slot under the point; a
\* click that does not fire leaves ammo, the turret and the projectile pool as
\* the shooting step found them.
FireInputGuarded ==
    frame.click.clicked =>
        IF FireConditions
            THEN /\ frame.click.ammoAfter = frame.click.ammoBefore - SHOT_COST
                 /\ frame.click.gepardAfter.isFiring
                 /\ frame.click.gepardAfter.fireTimer = 0
                 /\ frame.click.gepardAfter.fireFrame = 1
                 /\ \A k \in Launched :
                        /\ frame.click.projectilesAfter[k].active
                        /\ ~frame.click.projectilesBefore[k].active
                        /\ frame.click.projectilesAfter[k].targetDroneIndex
                               \in UnderClick
                        /\ \A j \in UnderClick :
                               frame.click.projectilesAfter[k].targetDroneIndex <= j
            ELSE /\ frame.click.ammoAfter = frame.click.ammoBefore
                 /\ frame.click.gepardAfter = frame.click.gepardBefore
                 /\ frame.click.projectilesAfter = frame.click.projectilesBefore

\* a click on a point that two Flying drones cover has fired
FiredWhereTwoOverlap ==
    /\ frame.click.clicked
    /\ FireConditions
    /\ Cardinality(UnderClick) = 2
    /\ frame.fire.fired

\* a gameplay tick spawned a wave in its spawn step
TickSpawned == frame.ticked /\ frame.spawn.called /\ ~frame.selected

\* C18: a gameplay tick spawns a wave only if the previous wave was resolved
\* before the tick began (waveActive was already false), never in the tick
\* that resolves it, RESPAWN_DELAY of game time lying between the two.
SpawnWaitsAfterResolution ==
    [][TickSpawned' => ~shahedActive]_vars

\* the state a restart leaves
RestartResets ==
    frame.restarted =>
        /\ ammo = INITIAL_AMMO
        /\ score = 0
        /\ ~shahedActive
        /\ spawnTimer = 0
        /\ \A i \in DroneIdx : ~drones[i].active
        /\ ~levelSelected
        /\ ~gameStarted

\* a frame that begins on the level selection screen ticks only if it selects
NoTickBeforeSelection == (~levelSelected /\ frame'.ticked) => frame'.selected

\* a frame that selects a level generates an equation, spawns a wave of it and
\* ends with waveActive true
SelectionStartsWave ==
    frame'.selected =>
        /\ ~levelSelected /\ levelSelected' /\ gameStarted'
        /\ frame'.spawn.called
        /\ frame'.spawn.correctAnswer = currentEquation'.correctAnswer
        /\ \E i \in DroneIdx : drones'[i].active
        /\ shahedActive'

\* C19: a restart accepted when the match is over leaves ammo INITIAL_AMMO,
\* score 0, waveActive false, the spawn timer 0, every drone slot inactive and
\* the level selection screen; no gameplay tick runs until a level is selected,
\* and the frame that selects one creates an equation and a wave and leaves
\* waveActive true.
RestartReturnsToSelection ==
    /\ []RestartResets
    /\ [][NoTickBeforeSelection]_vars
    /\ [][SelectionStartsWave]_vars

\* a restart was accepted while the spawn timer stood above RESPAWN_DELAY and a
\* wave was in the pool
RestartAccepted ==
    /\ frame.restarted
    /\ frame.ticked
    /\ frame.spawn.called
    /\ ~gameStarted

\* C20: once a frame has processed a restart request no live entity remains:
\* every drone slot and every projectile slot is inactive.
NoLiveEntityAfterRestart ==
    frame.restarted =>
        /\ \A i \in DroneIdx : ~drones[i].active
        /\ \A k \in ProjIdx : ~projectiles[k].active

\* what pause and the options menu freeze
Frozen == << drones, projectiles, gepard, ammo, score, currentEquation,
             shahedActive, spawnTimer >>

\* a frame that found the game paused or the options menu open when it came to
\* the gameplay tick changed none of the frozen variables
FrozenWhilePaused == (paused' \/ showOptionsMenu') => UNCHANGED Frozen

\* KEY_O that opens the menu in a started game pauses it
MenuPauses == (gameStarted /\ ~showOptionsMenu /\ showOptionsMenu') => paused'

\* C21: a frame in which the game is paused or the options menu is open
\* changes neither the drone pool, the projectile pool, the turret, ammo,
\* score, the equation, waveActive nor the spawn timer (fire and restart
\* inputs have no effect), and opening the options menu in a started game
\* sets paused.
PauseFreezesGame == [][FrozenWhilePaused /\ MenuPauses]_vars

\* the drone slots that UpdateProjectiles changed in the tick of the frame
ChangedByProjectiles ==
    {i \in DroneIdx : frame.pool.after[i] # frame.pool.before[i]}

\* every slot that UpdateProjectiles changed held an active Flying or Exploding
\* drone and was the slot of a projectile that was active when the frame began
OwnSlotOnly ==
    frame'.pool.updated =>
        \A i \in ChangedByProjectiles' :
            /\ frame'.pool.before[i].active
            /\ frame'.pool.before[i].state \in {DRONE_FLYING, DRONE_EXPLODING}
            /\ \E k \in ProjIdx : /\ projectiles[k].active
                                   /\ projectiles[k].targetDroneIndex = i

\* C22: UpdateProjectiles changes a drone only in the slot that an active
\* projectile references, and only if that drone is active and Flying or
\* Exploding; Falling, Dead and inactive drones and all other slots are left
\* as they are.
ProjectilesTouchOwnSlot == [][OwnSlotOnly]_vars

\* a projectile came within the hit radius of the drone in its slot, which was
\* Falling, in a frame in which another slot held a Flying drone
ProjectileAtFallingDrone ==
    /\ frame.pool.updated
    /\ \E n \in DOMAIN frame.log :
           /\ frame.log[n].near
           /\ frame.log[n].droneBefore.active
           /\ frame.log[n].droneBefore.state = DRONE_FALLING
    /\ \E i \in DroneIdx : IsFlying(frame.pool.before[i])

\* the slots that were inactive or Dead when SpawnDrones was called
FreeBefore ==
    {i \in DroneIdx : \/ ~frame.spawn.before[i].active
                      \/ frame.spawn.before[i].state = DRONE_DEAD}

\* the slots that SpawnDrones changed in anything but the isShahed flag
Written ==
    {i \in DroneIdx :
        [frame.spawn.after[i] EXCEPT !.isShahed = frame.spawn.before[i].isShahed]
            # frame.spawn.before[i]}

\* C23: SpawnDrones places exactly min(wave size, free slots) drones, all of
\* them in slots that were inactive or Dead, and reports that number; of the
\* active drones that are not Dead it changes nothing but the isShahed flag of
\* Flying ones; with no free slot it places nothing.
SpawnFillsFreeSlots ==
    frame.spawn.called =>
        /\ Written \subseteq FreeBefore
        /\ \A i \in Written : /\ frame.spawn.after[i].active
                               /\ frame.spawn.after[i].state = DRONE_FLYING
        /\ Cardinality(Written) =
               IF frame.spawn.numDrones < Cardinality(FreeBefore)
                   THEN frame.spawn.numDrones ELSE Cardinality(FreeBefore)
        /\ frame.spawn.spawned = Cardinality(Written)
        /\ \A i \in DroneIdx \ FreeBefore :
               frame.spawn.before[i].state # DRONE_FLYING =>
                   frame.spawn.after[i] = frame.spawn.before[i]

\* a wave of two found one free slot, a Dead drone's
OneFreeSlotForTwo ==
    /\ frame.spawn.called
    /\ frame.spawn.numDrones = 2
    /\ Cardinality(FreeBefore) = 1
    /\ \E i \in FreeBefore : frame.spawn.before[i].active

\* the pool that the tick of the frame handed to CheckDroneStatus
StatusPool == frame.pool.after

\* C24: CheckDroneStatus reports canWin exactly if an active drone is Flying
\* with isShahed set, shahedFound equal to canWin, and aliveCount equal to the
\* number of active drones that are not Dead; the pool it was given is the
\* pool the tick goes on with.
StatusCountsPool ==
    frame.pool.updated =>
        /\ frame.status.canWin =
               (\E i \in DroneIdx : /\ StatusPool[i].active
                                     /\ StatusPool[i].state = DRONE_FLYING
                                     /\ StatusPool[i].isShahed)
        /\ frame.status.shahedFound = frame.status.canWin
        /\ frame.status.aliveCount =
               Cardinality({i \in DroneIdx : /\ StatusPool[i].active
                                               /\ StatusPool[i].state # DRONE_DEAD})
        /\ (~frame.selected /\ frame.spawn.called) => frame.spawn.before = StatusPool
        /\ (~frame.spawn.called /\ ~frame.restarted) => drones = StatusPool

\* the status of a pool that holds a Dead drone still active, a target that is
\* no longer Flying, and a drone that is alive
StatusOfMixedPool ==
    /\ frame.pool.updated
    /\ ~frame.status.canWin
    /\ frame.status.aliveCount > 0
    /\ \E i \in DroneIdx : StatusPool[i].active /\ StatusPool[i].state = DRONE_DEAD
    /\ \E i \in DroneIdx : /\ StatusPool[i].active /\ StatusPool[i].isShahed
                            /\ StatusPool[i].state = DRONE_FALLING

\* the index is one of the five, 0 at and beyond the right edge, 4 at and
\* beyond the left edge
AimClamped ==
    /\ gepard.turretIndex \in 0 .. 4
    /\ frame.mouseX >= SCREEN_WIDTH => gepard.turretIndex = 0
    /\ frame.mouseX <= 0 => gepard.turretIndex = 4

\* a mouse further right never gives a higher index
AimMonotone ==
    /\ frame'.mouseX >= frame.mouseX => gepard'.turretIndex <= gepard.turretIndex
    /\ frame'.mouseX <= frame.mouseX => gepard'.turretIndex >= gepard.turretIndex

\* C25: GetTurretIndexFromMouse returns an index in 0..4 for every mouseX,
\* negative ones and ones beyond the field width included, 0 for
\* mouseX >= screenWidth, 4 for mouseX <= 0, and never a higher index for a
\* higher mouseX.
TurretIndexClampedMonotone == []AimClamped /\ [][AimMonotone]_vars

\* the turret was aimed with the mouse beyond the right edge of the field
AimedBeyondField ==
    /\ frame.mouseX > SCREEN_WIDTH
    /\ gepard.turretIndex = 0

\* what UpdateDrones made of the drone that was Flying in slot i when the frame
\* began
FlyingUpdate(i) ==
    LET d == drones[i]
        a == frame'.pool.before[i]
    IN  (d.active /\ d.state = DRONE_FLYING) =>
            /\ a.x <= d.x
            /\ IF d.isShahed
                   THEN IF a.x < DRONE_LEFT_BOUNDARY * FP
                            THEN a.state = DRONE_FALLING /\ a.animTimer = 0 /\ a.active
                            ELSE a.state = DRONE_FLYING /\ a.active
                   ELSE /\ a.state = DRONE_FLYING
                        /\ a.active = (a.x >= OFF_SCREEN_LEFT * FP)

\* C26: UpdateDrones makes a Flying target whose x after the move is below
\* DRONE_LEFT_BOUNDARY Falling in that call, with animTimer 0 and still
\* active; it never makes a Flying drone that is not the target Falling, and
\* deactivates such a drone as soon as its x is below OFF_SCREEN_LEFT.
FlyingDronesLeave ==
    [][(frame'.pool.updated /\ ~frame'.selected) =>
           \A i \in DroneIdx : FlyingUpdate(i)]_vars

\* in one tick the target crossed the left boundary and started to fall while
\* a decoy flew on
TargetCrossedBoundary ==
    /\ frame.pool.updated
    /\ \E i \in DroneIdx : /\ frame.pool.before[i].active
                            /\ frame.pool.before[i].isShahed
                            /\ frame.pool.before[i].state = DRONE_FALLING
                            /\ frame.pool.before[i].animTimer = 0
                            /\ frame.pool.before[i].y = DRONE_SPAWN_Y_MIN * FP
    /\ \E i \in DroneIdx : /\ IsFlying(frame.pool.before[i])
                            /\ ~frame.pool.before[i].isShahed

\* the state changes that UpdateDrones may make to the active drone d, a being
\* the drone after the call
DroneStep(d, a) ==
    IF d.state = DRONE_DEAD THEN ~a.active
    ELSE /\ a.state # d.state =>
                \/ d.state = DRONE_FLYING /\ a.state = DRONE_FALLING /\ d.isShahed
                \/ d.state = DRONE_FALLING /\ a.state = DRONE_EXPLODING /\ d.isShahed
                \/ d.state = DRONE_FALLING /\ a.state = DRONE_DEAD /\ ~d.isShahed
                \/ d.state = DRONE_EXPLODING /\ a.state = DRONE_DEAD

\* the state changes that UpdateProjectiles may make to the active drone d
HitStep(d, a) ==
    a.state # d.state =>
        \/ d.state = DRONE_FLYING /\ a.state = DRONE_EXPLODING /\ d.isShahed
        \/ d.state = DRONE_FLYING /\ a.state = DRONE_FALLING /\ ~d.isShahed

\* the steps of a frame change the state of active drones in the listed ways
\* only, and a slot turns Flying only when SpawnDrones fills a free slot
ListedStateChanges ==
    /\ (frame'.pool.updated /\ ~frame'.selected) =>
           \A i \in DroneIdx :
               drones[i].active => DroneStep(drones[i], frame'.pool.before[i])
    /\ frame'.pool.updated =>
           \A i \in DroneIdx :
               IF frame'.pool.before[i].active
                   THEN HitStep(frame'.pool.before[i], frame'.pool.after[i])
                   ELSE frame'.pool.after[i] = frame'.pool.before[i]
    /\ frame'.spawn.called =>
           \A i \in DroneIdx :
               (frame'.spawn.after[i].state # frame'.spawn.before[i].state
                   \/ frame'.spawn.after[i].active # frame'.spawn.before[i].active)
               => /\ ~frame'.spawn.before[i].active
                     \/ frame'.spawn.before[i].state = DRONE_DEAD
                  /\ IsFlying(frame'.spawn.after[i])
    /\ (~frame'.pool.updated /\ ~frame'.spawn.called) =>
           \A i \in DroneIdx : drones'[i].state = drones[i].state

\* C27: an active drone changes state only from Flying to Exploding (target
\* hit), Flying to Falling (hit drone that is not the target, or target across
\* the left boundary), Falling to Exploding (target at ground level), Falling
\* to Dead (drone that is not the target, near the ground or off the screen)
\* and Exploding to Dead; the next UpdateDrones deactivates a Dead drone; a
\* slot returns to Flying only by a spawn into a free slot.
OnlyListedStateChanges == [][ListedStateChanges]_vars

\* C28: while gameplay ticks with positive dt go on, every slot that holds an
\* active drone is free of it in the end: whatever its state, the drone of an
\* active slot is deactivated, or dies and leaves a slot that is deactivated
\* after the drone of a later wave took it.
EveryDroneLeaves ==
    \A i \in DroneIdx : drones[i].active ~> ~drones[i].active

\* the wave was active at the end of a frame whose spawn step spawned nothing
WaveFlies == shahedActive /\ ~frame.spawn.called

\* C29: while gameplay ticks with positive dt go on in a started game, a wave
\* that is active (waveActive true) is resolved in the end, waveActive false
\* at the end of a frame or at the spawn step of a frame, which then spawns;
\* whenever waveActive is false, in the end a frame generates an equation and
\* spawns a wave, also when the ammo pays no shot.
WaveTurnsOver ==
    /\ WaveFlies ~> (~shahedActive \/ frame.spawn.called)
    /\ ~shahedActive ~> frame.spawn.called

\* the target crossed the left boundary in a frame whose spawn step spawned
\* the next wave, with ammo that pays no shot
SpawnedWithoutAmmo ==
    /\ frame.ticked /\ frame.spawn.called
    /\ ammo < SHOT_COST
    /\ frame.spawn.spawned > 0
    /\ \E i \in DroneIdx : /\ frame.spawn.before[i].active
                            /\ frame.spawn.before[i].isShahed
                            /\ frame.spawn.before[i].state = DRONE_FALLING
                            /\ frame.spawn.before[i].animTimer = 0

\* the tick of the last frame found the match over: no shot can be paid, no
\* drone is alive and no target flies
MatchOver ==
    /\ frame.ticked
    /\ ~frame.restarted
    /\ ammo < SHOT_COST
    /\ frame.status.aliveCount = 0
    /\ ~frame.status.canWin

\* C30: once a tick found the match over, every later tick finds it over, and
\* spawns no wave and activates no drone, until a tick restarts the match.
StaysOver ==
    [][MatchOver /\ frame'.ticked /\ ~frame'.restarted
          => /\ MatchOver'
             /\ ~frame'.spawn.called
             /\ \A i \in DroneIdx : drones'[i].active => drones[i].active]_vars

\* a decoy has left the screen and the target of its wave has fallen and died
WaveGone ==
    /\ frame.ticked
    /\ \E i \in DroneIdx : /\ ~drones[i].active /\ ~drones[i].isShahed
                            /\ drones[i].state = DRONE_FLYING
                            /\ drones[i].x < OFF_SCREEN_LEFT * FP
    /\ \E i \in DroneIdx : /\ ~drones[i].active /\ drones[i].isShahed
                            /\ drones[i].state = DRONE_DEAD

\* the slots whose drone was active, Flying and marked isShahed when SpawnDrones
\* was called
FlyingTargetsAtSpawn ==
    {i \in DroneIdx : /\ frame.spawn.before[i].active
                      /\ frame.spawn.before[i].state = DRONE_FLYING
                      /\ frame.spawn.before[i].isShahed}

\* C31: when the spawn step of a gameplay tick calls SpawnDrones, no active
\* drone is Flying with isShahed true.
NoSpawnOverFlyingTarget == TickSpawned => FlyingTargetsAtSpawn = {}

\* the tick of the last frame restarted the match on a game-over check that
\* found no shot payable, no drone alive and no Flying target
RestartWasDue ==
    /\ frame.ticked
    /\ frame.restartAmmo < SHOT_COST
    /\ frame.status.aliveCount = 0
    /\ ~frame.status.canWin

\* C32: a frame restarts the match only in a gameplay tick (not paused, no
\* options menu) whose game-over check finds ammo < SHOT_COST, aliveCount = 0
\* and canWin false; a frame with a restart request that does not restart
\* ends in the state that the same frame without the request ends in.
RestartOnlyWhenOver ==
    [][/\ frame'.restarted => RestartWasDue'
       /\ (PressRestart /\ ~frame'.restarted) => NoInput
       /\ (ClickAndRestart /\ ~frame'.restarted) => Click]_vars

\* a restart request was honoured in a frame in which the player also fired,
\* the shot leaving less than SHOT_COST
RestartedAfterLastShot ==
    /\ frame.restarted
    /\ frame.fire.fired
    /\ frame.restartAmmo < SHOT_COST

\* C33: while gameplay ticks with positive dt go on, every active projectile
\* is deactivated in the end, and no projectile is left active by an
\* UpdateProjectiles call that took its lifetime beyond
\* PROJECTILE_MAX_LIFETIME, whatever became of its target slot.
ProjectilesExpire ==
    /\ [](\A i \in ProjIdx :
              projectiles[i].active =>
                  projectiles[i].lifetime <= PROJECTILE_MAX_LIFETIME)
    /\ \A i \in ProjIdx : projectiles[i].active ~> ~projectiles[i].active

\* a projectile that hit nothing was deactivated by the call that took its
\* lifetime beyond PROJECTILE_MAX_LIFETIME
ExpiredByLifetime ==
    /\ frame.ticked
    /\ \E k \in 1 .. Len(frame.log) :
           /\ frame.log[k].expired
           /\ frame.log[k].effect = "none"
           /\ ~projectiles[frame.log[k].projectile].active
           /\ projectiles[frame.log[k].projectile].lifetime > PROJECTILE_MAX_LIFETIME

\* what a frame may do to fireFrame: leave it, set it to 1 by a fire action,
\* or advance it from 1 to 2 and from 2 to 0, clearing isFiring
FireFrameStep ==
    \/ gepard'.fireFrame = gepard.fireFrame
    \/ frame'.fire.fired /\ gepard'.fireFrame = 1 /\ gepard'.isFiring
    \/ gepard.fireFrame = 1 /\ gepard'.fireFrame = 2 /\ gepard'.isFiring
    \/ gepard.fireFrame = 2 /\ gepard'.fireFrame = 0 /\ ~gepard'.isFiring

\* C34: fireFrame is always in 0..2 and is 0 whenever isFiring is false; a
\* fire action sets it to 1, and gameplay ticks with positive dt advance it
\* from 1 to 2 and from 2 to 0 and clear isFiring in the end.
FireAnimationEnds ==
    /\ [](gepard.fireFrame \in 0 .. 2 /\ (~gepard.isFiring => gepard.fireFrame = 0))
    /\ [][FireFrameStep]_vars
    /\ gepard.isFiring ~> ~gepard.isFiring

\* the animation of the shot the player fired has ended
AnimationOver ==
    /\ lastFire.fired
    /\ frame.ticked
    /\ ~gepard.isFiring
    /\ gepard.fireFrame = 0

\* the projectile slots that were free when the shooting step began
FreeSlots == {k \in ProjIdx : ~frame.click.projectilesBefore[k].active}

\* C35: a fire action launches as many of its three projectiles as there are
\* free slots, writes no slot that holds an active projectile (none at all
\* when no slot is free), and in every case deducts SHOT_COST once and starts
\* the fire animation.
FirePaysOnceWhateverLaunches ==
    frame.fire.fired =>
        /\ Launched \subseteq FreeSlots
        /\ Cardinality(Launched) = Min(3, Cardinality(FreeSlots))
        /\ \A k \in Launched : frame.click.projectilesAfter[k].active
        /\ frame.click.ammoAfter = frame.click.ammoBefore - SHOT_COST
        /\ frame.click.gepardAfter.isFiring
        /\ frame.click.gepardAfter.fireFrame = 1
        /\ frame.click.gepardAfter.fireTimer = 0

\* a fire action found every projectile slot taken
FiredWithFullPool == frame.fire.fired /\ FreeSlots = {}

\* a projectile of the frame collided with a Flying drone and took effect
HitFlying ==
    \E k \in DOMAIN frame.log : /\ frame.log[k].effect \in {"correct", "wrong"}
                                /\ IsFlying(frame.log[k].droneBefore)
SomeCorrectHit == \E k \in DOMAIN frame.log : frame.log[k].effect = "correct"

\* score changes only in a frame with a collision with a Flying drone, ammo
\* only in a frame with a fire action or a correct hit
ScoreAndAmmoCauses ==
    [][/\ score' # score => HitFlying'
       /\ ammo' # ammo => (frame'.fire.fired \/ SomeCorrectHit')]_vars

\* C36: score changes only in a frame with a collision of a projectile with a
\* Flying drone or a restart, ammo only in a frame with a fire action, a
\* correct hit or a restart; a wave that ends with its target unhit changes
\* neither.
ScoreAndAmmoCausesOrRestart ==
    [][/\ score' # score => (HitFlying' \/ frame'.restarted)
       /\ ammo' # ammo => (frame'.fire.fired \/ SomeCorrectHit' \/ frame'.restarted)
       /\ (/\ shahedActive /\ frame'.ticked /\ ~frame'.status.canWin
           /\ frame'.log = << >> /\ ~frame'.fire.fired /\ ~frame'.restarted)
              => (score' = score /\ ammo' = ammo)]_vars

\* a tick found the wave's target gone with no projectile in the air
TargetLeftUnhit ==
    /\ frame.ticked /\ ~frame.status.canWin /\ frame.log = << >>
    /\ ~frame.fire.fired /\ ~frame.restarted /\ ~frame.spawn.called
    /\ ~shahedActive /\ gameStarted
    /\ \E i \in DroneIdx : /\ frame.pool.after[i].active /\ frame.pool.after[i].isShahed
                            /\ frame.pool.after[i].state # DRONE_FLYING

\* C37: in a started game an active Flying drone is marked isShahed exactly
\* when it displays the correctAnswer of the current equation.
FlyingMarkedIffCorrect ==
    gameStarted =>
        \A i \in DroneIdx :
            IsFlying(drones[i]) =>
                (drones[i].isShahed <=> drones[i].answer = currentEquation.correctAnswer)

\* a spawn step changed the mark of a drone that was Flying before it
RemarkedAtSpawn ==
    /\ gameStarted /\ frame.spawn.called
    /\ \E i \in DroneIdx : /\ IsFlying(frame.spawn.before[i])
                            /\ IsFlying(drones[i])
                            /\ frame.spawn.before[i].isShahed # drones[i].isShahed

\* C38: ammo stays within 0 .. MAX_AMMO: a fire action found ammo >= SHOT_COST
\* and a correct hit raises ammo by HIT_REWARD up to MAX_AMMO at most.
AmmoInRange ==
    /\ 0 <= ammo /\ ammo <= MAX_AMMO
    /\ frame.fire.fired => frame.click.ammoBefore >= SHOT_COST
    /\ \A k \in DOMAIN frame.log :
           /\ 0 <= frame.log[k].ammoAfter /\ frame.log[k].ammoAfter <= MAX_AMMO
           /\ frame.log[k].effect = "correct" =>
                  frame.log[k].ammoAfter =
                      Min(frame.log[k].ammoBefore + HIT_REWARD, MAX_AMMO)

\* a click on a Flying drone, the turret idle, was refused for lack of ammo
RefusedForLackOfAmmo ==
    /\ frame.click.clicked /\ UnderClick # {}
    /\ ~frame.click.gepardBefore.isFiring
    /\ frame.click.ammoBefore < SHOT_COST
    /\ ~frame.fire.fired /\ ammo = frame.click.ammoBefore

\* no shot can be paid for and no projectile is in the air
AmmoSpent == ammo < SHOT_COST /\ \A k \in ProjIdx : ~projectiles[k].active

\* C39: from a state with ammo < SHOT_COST and no active projectile, every
\* frame that is not a restart leaves ammo as it is, accepts no fire action
\* and activates no projectile, so the condition lasts until a restart.
NoRecoveryBeforeRestart ==
    [][AmmoSpent /\ ~frame'.restarted =>
           /\ ammo' = ammo
           /\ ~frame'.fire.fired
           /\ AmmoSpent']_vars

\* out of ammo for good, a tick refused a click on a Flying target
TargetOutOfReach ==
    /\ AmmoSpent /\ frame.ticked /\ ~frame.restarted
    /\ frame.click.clicked /\ ~frame.fire.fired
    /\ \E i \in UnderClick : frame.click.drones[i].isShahed
    /\ \A k \in ProjIdx : ~frame.click.projectilesBefore[k].active

\* the offset of the candidate that the last pass stored in answers[i]
DecoyOffset == gen.answer - currentEquation.correctAnswer

\* C40: every candidate of the wrong-answer loop is correctAnswer + offset
\* with offset in -10 .. 9 and not 0, so it never is correctAnswer; the loop
\* makes at most DecoyAttemptLimit passes, and is left with a duplicate only
\* after that many.
DecoyNeverCorrect ==
    gen.attempts >= 1 =>
        /\ DecoyOffset >= 0 - DecoyOffsetShift
        /\ DecoyOffset <= DecoyOffsetSpan - DecoyOffsetShift - 1
        /\ DecoyOffset # 0
        /\ gen.answer # currentEquation.correctAnswer
        /\ gen.attempts <= DecoyAttemptLimit
        /\ gen.attempts = DecoyAttemptLimit => gen.left
        /\ gen.left /\ gen.duplicate => gen.attempts = DecoyAttemptLimit
        /\ gen.left /\ gen.attempts < DecoyAttemptLimit =>
               /\ gen.answer \notin ExistingAnswers(drones)
               /\ gen.answer \notin SeqToSet(gen.answers)

\* the loop was left with its budget spent and a duplicate in answers[i]
DecoyBudgetSpent ==
    /\ gen.left /\ gen.duplicate /\ gen.attempts = DecoyAttemptLimit
    /\ gen.answer \in ExistingAnswers(drones)

=============================================================================
